---------------------------- MODULE Spec2Model ----------------------------
(***************************************************************************)
(* A model of the compositing and streaming control layer of rustcord:     *)
(*   - the hardware encoder selector   (src/extensions/hardware_accel.rs)  *)
(*   - the scene switcher and its fades (src/extensions/scene_switcher.rs) *)
(*   - the adaptive bitrate loop        (src/extensions/streaming.rs)      *)
(*   - the streaming output branches    (src/extensions/streaming.rs)      *)
(*   - the overlay manager's rotation   (src/extensions/overlays.rs)       *)
(*   - the recorder command loop        (src/recorder.rs)                  *)
(*   - the recording controls           (src/gui/controls.rs)              *)
(* Each component has its own next-state relation and specification over   *)
(* the shared variables; Spec composes them.                               *)
(*                                                                         *)
(* The GStreamer calls the code makes (ElementFactory::make, Bin::add,     *)
(* sync_state_with_parent, link, Bin::remove, static_pad) are the          *)
(* environment: each may succeed or fail, and the model draws the outcome  *)
(* nondeterministically at the point where the code makes the call.        *)
(***************************************************************************)
EXTENDS Integers, Sequences, FiniteSets, TLC

VARIABLES
    \* ---- hardware encoder selector ----
    selPc,          \* position inside setup_unified_hardware_accel
    selRet,         \* what the last call returned
    gpuUsage,       \* what read_gpu_usage returned in the running/last call
    attempt,        \* per encoder: how far its attempt got in this call
    created,        \* encoders ElementFactory::make built in this call
    addedByCall,    \* encoder nodes this call added to the pipeline
    pipelineNodes,  \* encoder nodes that are in the pipeline
    links,          \* links between upstream, the encoders and downstream
    selCalls,       \* number of calls started
    \* ---- adaptive streaming controller ----
    bytes_sent,       \* MultiStreamingManager.bytes_sent (shared counter)
    current_bitrate,  \* MultiStreamingManager.current_bitrate (the field)
    abrStarted,       \* start_adaptive_bitrate has spawned its task
    abr,              \* the task's locals: last_time, last_bytes, current_bitrate,
                      \* and the last iteration's bytes_delta and branch
    encoderAlive,     \* the encoder the task holds a weak reference to exists
    encBitrate,       \* the encoder's "bitrate" property: <<>> until set, then <<v>>
    lockHeld,         \* threads inside bytes_sent.lock() (the Mutex guards alive)
    rec,              \* per streaming thread: its record_bytes_sent call in progress
    requested,        \* sum of the counts passed to record_bytes_sent so far
    \* ---- scene switcher ----
    scenes,               \* SceneSwitcher.scenes: each scene its sequence of sources
    current_scene_index,  \* SceneSwitcher.current_scene_index (0-based)
    padProps,             \* properties of the compositor's sink pads
    fades,                \* the fade tasks spawned on the main context, still running
    fadesStarted,         \* number of fade tasks spawned so far
    lastCall,             \* the last SceneSwitcher call: operation, index, result
    sceneCalls,           \* number of SceneSwitcher calls made
    compositorAlive,      \* the compositor element the fade tasks refer to exists
    \* ---- streaming output branches ----
    outputs,        \* MultiStreamingManager.outputs: protocol and elements
    branchNodes,    \* branch nodes (queue, mux, sink) that are in the pipeline
    branchLinks,    \* links between the upstream node and the branch nodes
    outCall,        \* the last add_output / link_input call and how it went
    addCalls,       \* number of add_output calls made
    linkCalls,      \* number of link_input calls made
    \* ---- overlay manager ----
    overlayInPipeline,  \* an element named "hello_overlay" is in the pipeline
    text_overlays,      \* OverlayManager.text_overlays (number of entries)
    overlayText,        \* the "text" property of that element
    overlayAlive,       \* the pipeline and the overlay element in it exist
    rotating_msgs,      \* OverlayManager.rotating_msgs
    current_msg_index,  \* OverlayManager.current_msg_index (0-based)
    rotTasks,           \* the rotation tasks spawned on the main context
    rotPanicked,        \* a rotation task has panicked on the main context
    shown,              \* texts written since the message list was last stored
    startIndex,         \* current_msg_index when the list was last stored
    ovCall,             \* the last OverlayManager call and its result
    ovCalls,            \* number of OverlayManager calls made
    ovTicks,            \* number of rotation task iterations run
    \* ---- recorder command loop ----
    receiver,       \* the commands sent on the channel and not yet received
    senderAlive,    \* the Sender half of the channel has not been dropped
    recPc,          \* where Recorder::run is: "recv", "setup", "capture", "exited"
    stop_flag,      \* the AtomicBool shared by run and start_recording
    recPath,        \* the path of the start_recording call in progress, or ""
    iterations,     \* mainloop.iterate calls of the capture loop, modulo IterWindow
    recResult,      \* what the last start_recording call returned
    sends,          \* number of commands sent
    \* ---- recording controls ----
    is_recording,        \* the Rc<RefCell<bool>> of the start and stop handlers
    is_paused,           \* the Rc<RefCell<bool>> of the pause handler
    RECORDING_PIPELINE,  \* "None", or the state of the pipeline it holds
    filename,            \* the text of the filename entry
    stopSensitive,       \* the stop button accepts clicks
    pauseLabel,          \* the label of the pause button
    lastClick,           \* the last button clicked and what its handler did
    clicks               \* number of button clicks handled

accelVars == <<selPc, selRet, gpuUsage, attempt, created, addedByCall,
               pipelineNodes, links, selCalls>>

streamVars == <<bytes_sent, current_bitrate, abrStarted, abr, encoderAlive,
                encBitrate, lockHeld, rec, requested>>

sceneVars == <<scenes, current_scene_index, padProps, fades, fadesStarted,
               lastCall, sceneCalls, compositorAlive>>

outputVars == <<outputs, branchNodes, branchLinks, outCall, addCalls, linkCalls>>

overlayVars == <<overlayInPipeline, text_overlays, overlayText, overlayAlive,
                 rotating_msgs, current_msg_index, rotTasks, rotPanicked, shown,
                 startIndex, ovCall, ovCalls, ovTicks>>

recorderVars == <<receiver, senderAlive, recPc, stop_flag, recPath, iterations,
                  recResult, sends>>

controlVars == <<is_recording, is_paused, RECORDING_PIPELINE, filename,
                 stopSensitive, pauseLabel, lastClick, clicks>>

vars == <<accelVars, streamVars, sceneVars, outputVars, overlayVars,
          recorderVars, controlVars>>

(***************************************************************************)
(* Hardware encoder selector                                               *)
(***************************************************************************)

\* Calls of the selector on one pipeline (the settings dialog repeats it).
MaxSelectCalls == 2

\* Values the GPU probe can read (clamped to 0..100 by read_gpu_usage).
GpuReadings == {0, 89, 90, 91, 100}

HwBackends == <<"VAAPI", "NVENC", "AMF">>

HwModes == {"VAAPI", "NVENC", "AMF"}

Encoders == HwModes \cup {"Software"}

\* The element name each encoder is created under.
NodeName(m) ==
    CASE m = "VAAPI" -> "vaapi_enc"
      [] m = "NVENC" -> "nvenc_enc"
      [] m = "AMF" -> "amf_enc"
      [] m = "Software" -> "soft_x264"

\* How an attempt can end.  "none": not attempted.
HwFailures == {"make_fail", "add_fail", "sync_fail",
               "link_up_fail", "link_down_fail",
               "link_up_fail_remove_fail", "link_down_fail_remove_fail"}

SwFailures == {"make_fail", "add_fail", "sync_fail",
               "link_up_fail", "link_down_fail"}

\* read_gpu_usage: the parsed value clamped to [0, 100]; 0 when unreadable.
read_gpu_usage(raw) == IF raw < 0 THEN 0 ELSE IF raw > 100 THEN 100 ELSE raw

GpuTooHighNever(gpu) == FALSE

\* The pre-emptive load-shedding test.
GpuTooHigh(gpu) == gpu > 90

\* The stage after a hardware backend that failed non-fatally.
NextStage(m) ==
    CASE m = "VAAPI" -> "NVENC"
      [] m = "NVENC" -> "AMF"
      [] m = "AMF" -> "Software"

OnHwLinkedFallThrough(m) == [pc |-> NextStage(m), ret |-> "None"]

\* Both links of a hardware backend succeeded: return its mode at once.
OnHwLinked(m) == [pc |-> "idle", ret |-> m]

RemoveNodeKeepsIt(nodes, n) == nodes

\* Bin::remove: the node leaves the pipeline (its pads are unlinked).
RemoveNode(nodes, n) == nodes \ {n}

RemoveLinks(ls, n) == {l \in ls : l[1] # n /\ l[2] # n}

\* Bin::add refuses an element whose name is already used in the bin.
CanAdd(m) == NodeName(m) \notin pipelineNodes

\* Element::link can succeed only while the source pad of `from` and the
\* sink pad of `to` are unlinked: upstream has one source pad and
\* downstream one sink pad.
LinkPossible(ls, from, to) ==
    /\ from = "upstream" => \A l \in ls : l[1] # "upstream"
    /\ to = "downstream" => \A l \in ls : l[2] # "downstream"

setup_unified_hardware_accel ==
    /\ selPc = "idle"
    /\ selCalls < MaxSelectCalls
    /\ selCalls' = selCalls + 1
    /\ \E raw \in GpuReadings :
         /\ gpuUsage' = read_gpu_usage(raw)
         /\ selPc' = IF GpuTooHigh(read_gpu_usage(raw)) THEN "Software" ELSE "VAAPI"
    /\ selRet' = "None"
    /\ attempt' = [m \in Encoders |-> "none"]
    /\ created' = {}
    /\ addedByCall' = {}
    /\ UNCHANGED <<pipelineNodes, links>>
    /\ UNCHANGED <<streamVars, sceneVars, outputVars, overlayVars,
                 recorderVars, controlVars>>

\* One hardware branch: make, add, sync, link upstream, link downstream,
\* and remove when a link failed.  `?` on add, sync and remove returns the
\* error to the caller.
TryHardware(m) ==
    /\ selPc = m
    /\ m \in HwModes
    /\ LET n == NodeName(m) IN
       \/ /\ attempt' = [attempt EXCEPT ![m] = "make_fail"]
          /\ selPc' = NextStage(m)
          /\ UNCHANGED <<selRet, created, addedByCall, pipelineNodes, links>>
       \/ /\ attempt' = [attempt EXCEPT ![m] = "add_fail"]
          /\ created' = created \cup {m}
          /\ selPc' = "idle"
          /\ selRet' = "Err"
          /\ UNCHANGED <<addedByCall, pipelineNodes, links>>
       \/ /\ CanAdd(m)
          /\ attempt' = [attempt EXCEPT ![m] = "sync_fail"]
          /\ created' = created \cup {m}
          /\ pipelineNodes' = pipelineNodes \cup {n}
          /\ addedByCall' = addedByCall \cup {n}
          /\ selPc' = "idle"
          /\ selRet' = "Err"
          /\ UNCHANGED links
       \/ /\ CanAdd(m)
          /\ \E f \in {"link_up_fail", "link_down_fail"} :
               /\ f = "link_down_fail" => LinkPossible(links, "upstream", n)
               /\ attempt' = [attempt EXCEPT ![m] = f]
               /\ created' = created \cup {m}
               /\ addedByCall' = addedByCall \cup {n}
               /\ pipelineNodes' = RemoveNode(pipelineNodes \cup {n}, n)
               /\ links' = RemoveLinks(links, n)
               /\ selPc' = NextStage(m)
               /\ UNCHANGED selRet
       \/ /\ CanAdd(m)
          /\ \E f \in {"link_up_fail_remove_fail", "link_down_fail_remove_fail"} :
               /\ f = "link_down_fail_remove_fail" =>
                      LinkPossible(links, "upstream", n)
               /\ attempt' = [attempt EXCEPT ![m] = f]
               /\ created' = created \cup {m}
               /\ addedByCall' = addedByCall \cup {n}
               /\ pipelineNodes' = pipelineNodes \cup {n}
               /\ links' = IF f = "link_down_fail_remove_fail"
                           THEN links \cup {<<"upstream", n>>}
                           ELSE links
               /\ selPc' = "idle"
               /\ selRet' = "Err"
       \/ /\ CanAdd(m)
          /\ LinkPossible(links, "upstream", n)
          /\ LinkPossible(links, n, "downstream")
          /\ attempt' = [attempt EXCEPT ![m] = "ok"]
          /\ created' = created \cup {m}
          /\ addedByCall' = addedByCall \cup {n}
          /\ pipelineNodes' = pipelineNodes \cup {n}
          /\ links' = links \cup {<<"upstream", n>>, <<n, "downstream">>}
          /\ selPc' = OnHwLinked(m).pc
          /\ selRet' = OnHwLinked(m).ret
    /\ UNCHANGED <<gpuUsage, selCalls>>
    /\ UNCHANGED <<streamVars, sceneVars, outputVars, overlayVars,
                 recorderVars, controlVars>>

\* The software fallback: every failure is returned to the caller, and
\* nothing is removed.
use_software_x264 ==
    /\ selPc = "Software"
    /\ LET n == NodeName("Software") IN
       \/ /\ attempt' = [attempt EXCEPT !["Software"] = "make_fail"]
          /\ selRet' = "Err"
          /\ UNCHANGED <<created, addedByCall, pipelineNodes, links>>
       \/ /\ attempt' = [attempt EXCEPT !["Software"] = "add_fail"]
          /\ created' = created \cup {"Software"}
          /\ selRet' = "Err"
          /\ UNCHANGED <<addedByCall, pipelineNodes, links>>
       \/ /\ CanAdd("Software")
          /\ \E f \in {"sync_fail", "link_up_fail", "link_down_fail"} :
               /\ f = "link_down_fail" => LinkPossible(links, "upstream", n)
               /\ attempt' = [attempt EXCEPT !["Software"] = f]
               /\ links' = IF f = "link_down_fail"
                           THEN links \cup {<<"upstream", n>>}
                           ELSE links
          /\ created' = created \cup {"Software"}
          /\ addedByCall' = addedByCall \cup {n}
          /\ pipelineNodes' = pipelineNodes \cup {n}
          /\ selRet' = "Err"
       \/ /\ CanAdd("Software")
          /\ LinkPossible(links, "upstream", n)
          /\ LinkPossible(links, n, "downstream")
          /\ attempt' = [attempt EXCEPT !["Software"] = "ok"]
          /\ created' = created \cup {"Software"}
          /\ addedByCall' = addedByCall \cup {n}
          /\ pipelineNodes' = pipelineNodes \cup {n}
          /\ links' = links \cup {<<"upstream", n>>, <<n, "downstream">>}
          /\ selRet' = "Software"
    /\ selPc' = "idle"
    /\ UNCHANGED <<gpuUsage, selCalls>>
    /\ UNCHANGED <<streamVars, sceneVars, outputVars, overlayVars,
                 recorderVars, controlVars>>

InitAccel ==
    /\ selPc = "idle"
    /\ selRet = "None"
    /\ gpuUsage = 0
    /\ attempt = [m \in Encoders |-> "none"]
    /\ created = {}
    /\ addedByCall = {}
    /\ pipelineNodes = {}
    /\ links = {}
    /\ selCalls = 0

NextAccel ==
    \/ setup_unified_hardware_accel
    \/ \E m \in HwModes : TryHardware(m)
    \/ use_software_x264

(***************************************************************************)
(* Properties of the selector                                              *)
(***************************************************************************)

Rank(m) == CHOOSE i \in 1..Len(HwBackends) : HwBackends[i] = m

Returned == selPc = "idle" /\ selCalls > 0

\* C3 (as stated): whenever the GPU probe reads 90 or more, select returns
\* Software and instantiates no VAAPI, NVENC or AMF encoder.
C3_SoftwareAtNinetyOrMore ==
    (Returned /\ gpuUsage >= 90) =>
        /\ selRet = "Software"
        /\ created \cap HwModes = {}

\* C3 (amended): whenever the GPU probe reads more than 90, no VAAPI, NVENC
\* or AMF encoder is instantiated or added, only the software encoder is
\* tried, and select returns Software unless the software fallback itself
\* fails, in which case it returns that error.
C3_SoftwareAboveNinety ==
    (selCalls > 0 /\ gpuUsage > 90) =>
        /\ created \cap HwModes = {}
        /\ \A m \in HwModes : attempt[m] = "none" /\ NodeName(m) \notin addedByCall
        /\ selPc \in {"Software", "idle"}
        /\ selPc = "idle" =>
              \/ selRet = "Software" /\ attempt["Software"] = "ok"
              \/ selRet = "Err" /\ attempt["Software"] \in SwFailures

C3_Witness ==
    Returned /\ gpuUsage = 91 /\ selRet = "Software" /\ created = {"Software"}

\* C4: the hardware backend whose make, add, sync and both links succeed is
\* returned at once: every earlier backend in [VAAPI, NVENC, AMF] was tried
\* and failed, and no later encoder (hardware or software) is created.
C4_FirstSuccessWins ==
    \A m \in HwModes :
        /\ attempt[m] = "ok" =>
              /\ selPc = "idle" /\ selRet = m
              /\ \A k \in Encoders :
                    (k = "Software" \/ Rank(k) > Rank(m)) =>
                        /\ attempt[k] = "none"
                        /\ k \notin created
                        /\ NodeName(k) \notin addedByCall
        /\ (Returned /\ selRet = m) =>
              /\ attempt[m] = "ok"
              /\ \A k \in HwModes : Rank(k) < Rank(m) => attempt[k] \in HwFailures

C4_Witness ==
    /\ Returned /\ selRet = "NVENC"
    /\ attempt["VAAPI"] = "link_down_fail"
    /\ created = {"VAAPI", "NVENC"}

\* C5: when select returns a mode, exactly one encoder node added by that
\* call is in the pipeline, it is the returned mode's node, and it is linked
\* upstream -> encoder -> downstream.
C5_OneLinkedEncoder ==
    (Returned /\ selRet \in Encoders) =>
        /\ addedByCall \cap pipelineNodes = {NodeName(selRet)}
        /\ <<"upstream", NodeName(selRet)>> \in links
        /\ <<NodeName(selRet), "downstream">> \in links

C5_Witness ==
    /\ Returned /\ selRet = "AMF"
    /\ addedByCall = {"vaapi_enc", "nvenc_enc", "amf_enc"}
    /\ pipelineNodes = {"amf_enc"}

\* C6 (as stated): a hardware backend whose attempt failed after its node
\* existed (add, state sync, upstream link, downstream link) has no node
\* left in the pipeline.
C6_FailedBackendRemoved ==
    \A m \in HwModes :
        attempt[m] \in HwFailures \ {"make_fail"} =>
            NodeName(m) \notin (addedByCall \cap pipelineNodes)

\* C7 (as stated): select returns an error only when the software fallback
\* failed; no failure of a hardware backend is returned to the caller.
C7_OnlySoftwareFailureIsFatal ==
    (Returned /\ selRet = "Err") => attempt["Software"] \in SwFailures


\* The encoder nodes linked upstream -> encoder -> downstream.
LinkedEncoders ==
    {n \in pipelineNodes : <<"upstream", n>> \in links /\ <<n, "downstream">> \in links}

\* C34: when select returns an error, no encoder node that call created,
\* hardware or software, is in the graph.
C34_ErrorLeavesNoNode ==
    (Returned /\ selRet = "Err") => addedByCall \cap pipelineNodes = {}

\* C35: after any number of successive select calls on one pipeline with
\* the same upstream and downstream, at most one encoder node is linked
\* between upstream and downstream and every encoder node in the graph is
\* linked there.
C35_OneEncoderAfterRepeatedSelect ==
    Returned =>
        /\ Cardinality(LinkedEncoders) <= 1
        /\ pipelineNodes \subseteq LinkedEncoders


(***************************************************************************)
(* Adaptive streaming controller: the bitrate loop                         *)
(***************************************************************************)

\* MultiStreamingManager::new(pipeline, 4000, 1000, 8000)
InitialBitrate == 4000

MinBitrate == 1000

MaxBitrate == 8000

\* check_interval, in seconds
CheckInterval == 5

BitrateStep == 256

\* The model stops the clock and the byte counter here.
MaxClock == 90

MaxBytesSent == 52000000

\* Byte count of one record_bytes_sent call: 6250 kbit/s over one interval,
\* 3125 kbit/s over two; several calls fall between two ticks.
RecordSizes == {4000000}

\* Seconds between two ticks: the timer fires on time or one interval late.
ElapsedChoices == {CheckInterval, 2 * CheckInterval}

Min(a, b) == IF a < b THEN a ELSE b

Max(a, b) == IF a > b THEN a ELSE b

\* u64::saturating_sub / u32::saturating_sub
SaturatingSub(a, b) == IF a > b THEN a - b ELSE 0

BelowLowMarkAtHalf(bytes_delta, elapsed, cur) ==
    LET y == 5 * 128 * cur * elapsed
    IN  y > 0 /\ bytes_delta <= (y - 1) \div 10

\* kbits_per_sec < current_bitrate * 0.7, with
\* kbits_per_sec = bytes_delta * 8 / 1024 / elapsed_secs, in exact arithmetic:
\* bytes_delta * 10 < 7 * 128 * current * elapsed.
BelowLowMark(bytes_delta, elapsed, cur) ==
    LET y == 7 * 128 * cur * elapsed
    IN  y > 0 /\ bytes_delta <= (y - 1) \div 10

\* kbits_per_sec > current_bitrate * 0.95:
\* bytes_delta * 20 > 19 * 128 * current * elapsed.
AboveHighMark(bytes_delta, elapsed, cur) ==
    bytes_delta > (19 * 128 * cur * elapsed) \div 20

RaisedUnclamped(cur) == cur + BitrateStep

\* (current_bitrate + 256).min(max_br); the sum stays far below 2^32 here.
Raised(cur) == Min(cur + BitrateStep, MaxBitrate)

LoweredUnclamped(cur) == SaturatingSub(cur, BitrateStep)

\* (current_bitrate.saturating_sub(256)).max(min_br)
Lowered(cur) == Max(SaturatingSub(cur, BitrateStep), MinBitrate)

TickBranchWithoutUpgrade(bytes_delta, elapsed, cur, alive) ==
    IF BelowLowMark(bytes_delta, elapsed, cur) THEN "increase"
    ELSE IF AboveHighMark(bytes_delta, elapsed, cur) THEN "decrease"
    ELSE "hold"

\* The branch one loop iteration takes.
TickBranch(bytes_delta, elapsed, cur, alive) ==
    IF ~alive THEN "gone"
    ELSE IF BelowLowMark(bytes_delta, elapsed, cur) THEN "increase"
    ELSE IF AboveHighMark(bytes_delta, elapsed, cur) THEN "decrease"
    ELSE "hold"

SnapshotBytesOnWriteOnly(branch, last_bytes, bytes_sent_now) ==
    IF branch \in {"increase", "decrease"} THEN bytes_sent_now ELSE last_bytes

\* last_bytes = bytes_sent_now, after the `if let` and outside it.
SnapshotBytes(branch, last_bytes, bytes_sent_now) == bytes_sent_now

LockAvailableAlways(held) == TRUE

\* Mutex::lock returns only while no other guard is alive.
LockAvailable(held) == held = {}

\* A call made from the main loop's thread, where no other main-loop code
\* runs between its lock and the drop of its guard.
record_bytes_sent(n) ==
    /\ requested + n <= MaxBytesSent
    /\ LockAvailable(lockHeld)
    /\ bytes_sent' = bytes_sent + n
    /\ requested' = requested + n
    /\ UNCHANGED <<current_bitrate, abrStarted, abr, encoderAlive, encBitrate>>
    /\ UNCHANGED <<lockHeld, rec>>
    /\ UNCHANGED <<accelVars, sceneVars, outputVars, overlayVars,
                 recorderVars, controlVars>>

\* Spawns the loop with its locals; the first iteration runs one interval
\* later.
start_adaptive_bitrate ==
    /\ ~abrStarted
    /\ abrStarted' = TRUE
    /\ abr' = [last_time |-> 0, last_bytes |-> 0,
               current_bitrate |-> current_bitrate,
               bytes_delta |-> 0, branch |-> "none"]
    /\ UNCHANGED <<bytes_sent, current_bitrate, encoderAlive, encBitrate>>
    /\ UNCHANGED <<lockHeld, rec, requested>>
    /\ UNCHANGED <<accelVars, sceneVars, outputVars, overlayVars,
                 recorderVars, controlVars>>

TickResetsPads ==
    /\ padProps' = [p \in DOMAIN padProps |-> [padProps[p] EXCEPT !.alpha = 0]]
    /\ UNCHANGED <<scenes, current_scene_index, fades, fadesStarted, lastCall,
                   sceneCalls, compositorAlive>>
    /\ UNCHANGED <<accelVars, outputVars, overlayVars,
                 recorderVars, controlVars>>

\* What a loop iteration does not touch: it holds the encoder's weak
\* reference, the counter and its own locals, and nothing else.
TickLeavesAlone == UNCHANGED <<accelVars, sceneVars, outputVars, overlayVars,
                 recorderVars, controlVars>>

\* One iteration of the loop, `elapsed` seconds after the previous one.  It
\* reads the counter under the lock; the guard is dropped in the same
\* statement.
BitrateTick(elapsed) ==
    /\ abrStarted
    /\ abr.last_time + elapsed <= MaxClock
    /\ LockAvailable(lockHeld)
    /\ LET now == abr.last_time + elapsed
           bytes_sent_now == bytes_sent
           bytes_delta == SaturatingSub(bytes_sent_now, abr.last_bytes)
           branch == TickBranch(bytes_delta, elapsed, abr.current_bitrate,
                                encoderAlive)
           new_bitrate ==
               CASE branch = "increase" -> Raised(abr.current_bitrate)
                 [] branch = "decrease" -> Lowered(abr.current_bitrate)
                 [] OTHER -> abr.current_bitrate
       IN  /\ abr' = [last_time |-> now,
                      last_bytes |-> SnapshotBytes(branch, abr.last_bytes,
                                                   bytes_sent_now),
                      current_bitrate |-> new_bitrate,
                      bytes_delta |-> bytes_delta, branch |-> branch]
           /\ encBitrate' = IF branch \in {"increase", "decrease"}
                            THEN <<new_bitrate>>
                            ELSE encBitrate
    /\ UNCHANGED <<bytes_sent, current_bitrate, abrStarted, encoderAlive>>
    /\ UNCHANGED <<lockHeld, rec, requested>>
    /\ TickLeavesAlone

\* The encoder element is destroyed; the task's weak reference stops
\* upgrading.
DropEncoder ==
    /\ encoderAlive
    /\ encoderAlive' = FALSE
    /\ UNCHANGED <<bytes_sent, current_bitrate, abrStarted, abr, encBitrate>>
    /\ UNCHANGED <<lockHeld, rec, requested>>
    /\ UNCHANGED <<accelVars, sceneVars, outputVars, overlayVars,
                 recorderVars, controlVars>>

\* Threads other than the main loop's that call record_bytes_sent (pad
\* probes and sink callbacks run on streaming threads).
Threads == {"probe_a", "probe_b"}

Idle == [pc |-> "idle", n |-> 0, tmp |-> 0]

\* record_bytes_sent on a streaming thread, statement by statement:
\* `let mut total = self.bytes_sent.lock().unwrap();`
record_lock(t, n) ==
    /\ rec[t].pc = "idle"
    /\ requested + n <= MaxBytesSent
    /\ LockAvailable(lockHeld)
    /\ lockHeld' = lockHeld \cup {t}
    /\ rec' = [rec EXCEPT ![t] = [pc |-> "locked", n |-> n, tmp |-> 0]]
    /\ requested' = requested + n
    /\ UNCHANGED <<bytes_sent, current_bitrate, abrStarted, abr, encoderAlive,
                   encBitrate>>
    /\ UNCHANGED <<accelVars, sceneVars, outputVars, overlayVars,
                 recorderVars, controlVars>>

\* `*total += count as u64;` the load ...
record_load(t) ==
    /\ rec[t].pc = "locked"
    /\ rec' = [rec EXCEPT ![t].pc = "loaded", ![t].tmp = bytes_sent]
    /\ UNCHANGED <<bytes_sent, current_bitrate, abrStarted, abr, encoderAlive,
                   encBitrate, lockHeld, requested>>
    /\ UNCHANGED <<accelVars, sceneVars, outputVars, overlayVars,
                 recorderVars, controlVars>>

\* ... and the store of the sum.
record_store(t) ==
    /\ rec[t].pc = "loaded"
    /\ bytes_sent' = rec[t].tmp + rec[t].n
    /\ rec' = [rec EXCEPT ![t].pc = "stored"]
    /\ UNCHANGED <<current_bitrate, abrStarted, abr, encoderAlive, encBitrate,
                   lockHeld, requested>>
    /\ UNCHANGED <<accelVars, sceneVars, outputVars, overlayVars,
                 recorderVars, controlVars>>

\* The guard `total` is dropped at the end of the function.
record_unlock(t) ==
    /\ rec[t].pc = "stored"
    /\ lockHeld' = lockHeld \ {t}
    /\ rec' = [rec EXCEPT ![t] = Idle]
    /\ UNCHANGED <<bytes_sent, current_bitrate, abrStarted, abr, encoderAlive,
                   encBitrate, requested>>
    /\ UNCHANGED <<accelVars, sceneVars, outputVars, overlayVars,
                 recorderVars, controlVars>>

InitStream ==
    /\ lockHeld = {}
    /\ rec = [t \in Threads |-> Idle]
    /\ requested = 0
    /\ bytes_sent = 0
    /\ current_bitrate = InitialBitrate
    /\ abrStarted = FALSE
    /\ abr = [last_time |-> 0, last_bytes |-> 0, current_bitrate |-> 0,
              bytes_delta |-> 0, branch |-> "none"]
    /\ encoderAlive = TRUE
    /\ encBitrate = <<>>

NextStream ==
    \/ \E n \in RecordSizes : record_bytes_sent(n)
    \/ start_adaptive_bitrate
    \/ \E elapsed \in ElapsedChoices : BitrateTick(elapsed)
    \/ DropEncoder

\* The counter under calls from streaming threads, with the loop reading it.
NextCounter ==
    \/ \E t \in Threads, n \in RecordSizes : record_lock(t, n)
    \/ \E t \in Threads : record_load(t)
    \/ \E t \in Threads : record_store(t)
    \/ \E t \in Threads : record_unlock(t)
    \/ start_adaptive_bitrate
    \/ \E elapsed \in ElapsedChoices : BitrateTick(elapsed)

(***************************************************************************)
(* Properties of the bitrate loop                                          *)
(***************************************************************************)

InRange(v) == MinBitrate <= v /\ v <= MaxBitrate

\* C1: for every sequence of ticks and throughput measurements the
\* controller's bitrate, the loop's current bitrate and every value pushed to
\* the encoder's bitrate property lie in [min, max].
C1_BitrateInRange ==
    /\ InRange(current_bitrate)
    /\ abrStarted => InRange(abr.current_bitrate)
    /\ \A i \in DOMAIN encBitrate : InRange(encBitrate[i])

\* Both clamps have acted: a tick raised the bitrate to max, a later one
\* lowered it, and the measured throughput was far above max.
C1_Witness ==
    /\ abrStarted
    /\ encBitrate = <<MaxBitrate - BitrateStep>>
    /\ abr.current_bitrate = MaxBitrate - BitrateStep
    /\ abr.last_bytes >= 3 * 4000000


\* The step is one iteration of the bitrate loop.
IsTick == abrStarted /\ abr'.last_time # abr.last_time

\* C17: on each tick with the encoder alive, with throughput the kbit/s
\* measured since the previous tick (bytes * 8 / 1024 / seconds), the loop's
\* bitrate becomes min(current + 256, max) when throughput < 0.70 * current,
\* max(current - 256, min) when throughput > 0.95 * current, and is pushed
\* to the encoder in both cases; otherwise it is unchanged and nothing is
\* written.  With min = 1000, max = 8000, current = 4000: 2000 kbit/s
\* (1280000 bytes in 5 s) gives 4256 and 3900 kbit/s (2496000 bytes in 5 s)
\* gives 3744.
C17_TickRule ==
    /\ TickBranch(1280000, CheckInterval, 4000, TRUE) = "increase"
    /\ Raised(4000) = 4256
    /\ TickBranch(2496000, CheckInterval, 4000, TRUE) = "decrease"
    /\ Lowered(4000) = 3744
    /\ [][(IsTick /\ encoderAlive) =>
            LET bytes == bytes_sent - abr.last_bytes
                secs == abr'.last_time - abr.last_time
                cur == abr.current_bitrate
                \* throughput < 0.70 * cur and throughput > 0.95 * cur,
                \* both sides multiplied by 1280 * secs and 2560 * secs
                low == bytes * 10 < 7 * 128 * cur * secs
                high == bytes * 20 > 19 * 128 * cur * secs
            IN  IF low
                THEN /\ abr'.current_bitrate = Min(cur + 256, MaxBitrate)
                     /\ encBitrate' = <<abr'.current_bitrate>>
                ELSE IF high
                THEN /\ abr'.current_bitrate = Max(cur - 256, MinBitrate)
                     /\ encBitrate' = <<abr'.current_bitrate>>
                ELSE /\ abr'.current_bitrate = cur
                     /\ encBitrate' = encBitrate]_vars

\* The loop has raised the bitrate on an idle interval and lowered it on an
\* interval above 6000 kbit/s: it is back at 4000, the value last pushed.
C17_Witness ==
    /\ abrStarted
    /\ encoderAlive
    /\ abr.last_time = 4 * CheckInterval
    /\ abr.last_bytes = 2 * 4000000
    /\ abr.current_bitrate = InitialBitrate
    /\ encBitrate = <<InitialBitrate>>


\* C24: every bitrate tick, whether it raised the bitrate, lowered it, left
\* it alone or found the encoder gone, replaces the byte snapshot by the
\* counter value it read and the time snapshot by its own time; the byte
\* delta it computed is the counter minus the old snapshot, or 0 if that
\* would be negative.
C24_SnapshotsEveryTick ==
    [][IsTick =>
         /\ abr'.branch \in {"increase", "decrease", "hold", "gone"}
         /\ abr'.last_bytes = bytes_sent
         /\ abr'.last_time > abr.last_time
         /\ abr'.bytes_delta >= 0
         /\ abr'.bytes_delta = IF bytes_sent >= abr.last_bytes
                               THEN bytes_sent - abr.last_bytes
                               ELSE 0]_vars

\* A tick that found the encoder gone has taken the snapshots: 4000000
\* bytes were counted in its interval and none since.
C24_Witness ==
    /\ abrStarted
    /\ abr.branch = "gone"
    /\ abr.bytes_delta = 4000000
    /\ abr.last_bytes = bytes_sent
    /\ abr.last_time >= 2 * CheckInterval


\* C32: once the bitrate loop has pushed a bitrate to the encoder, the
\* manager's stored current_bitrate equals the value most recently pushed.
C32_StoredBitrateFollowsLoop ==
    [](encBitrate # <<>> => current_bitrate = encBitrate[1])


\* The count of thread t's call that has not reached the counter yet.
Pending(t) == IF rec[t].pc \in {"locked", "loaded"} THEN rec[t].n ELSE 0

RECURSIVE PendingSum(_)
PendingSum(ts) ==
    IF ts = {} THEN 0
    ELSE LET t == CHOOSE x \in ts : TRUE
         IN  Pending(t) + PendingSum(ts \ {t})

\* C19: record_bytes_sent(n) increases the shared counter by exactly n and
\* the counter never decreases; with calls running on other threads
\* concurrently with each other and with the tick's read, no increment is
\* lost: the counter is the sum of the counts of all calls that have done
\* their addition, and of all calls once they have all returned.
C19_NoIncrementLost ==
    /\ [](bytes_sent = requested - PendingSum(Threads))
    /\ [][bytes_sent' >= bytes_sent]_vars
    /\ [][\A t \in Threads :
            (rec[t].pc = "loaded" /\ rec'[t].pc = "stored") =>
                bytes_sent' = bytes_sent + rec[t].n]_vars

\* The loop read the counter after two calls; a third call, on a streaming
\* thread, has since added its count and still holds the lock.
C19_Witness ==
    /\ abrStarted
    /\ abr.last_bytes = 2 * 4000000
    /\ rec["probe_a"].pc = "stored"
    /\ rec["probe_b"].pc = "idle"
    /\ lockHeld = {"probe_a"}
    /\ bytes_sent = 3 * 4000000
    /\ requested = 3 * 4000000


(***************************************************************************)
(* Scene switcher                                                          *)
(*                                                                         *)
(* Alpha is counted in units of 1/Steps: Steps stands for 1.0, and the     *)
(* loop's `1.0 - progress / steps` is Steps - progress.  A scene names     *)
(* each compositor pad at most once (a sink pad takes one input); scenes   *)
(* may share pads, and may name a pad the compositor does not have.        *)
(***************************************************************************)

\* let steps = 30;
Steps == 30

\* Fade tasks spawned in one run, and SceneSwitcher calls made in one run.
MaxFades == 2

MaxSceneCalls == 2

\* The compositor's request pads: sink_0 and sink_1.
ExistingPads == {0, 1}

Source(pad, x, y, w, h, a) ==
    [pad_index |-> pad, x |-> x, y |-> y, width |-> w, height |-> h, alpha |-> a]

\* "Scene0" of init_pipeline_with_advanced_features: the screen, full frame.
Scene0 == <<Source(0, 0, 0, 1280, 720, Steps)>>

\* The camera alone.
SceneCam == <<Source(1, 100, 100, 640, 480, Steps)>>

\* The screen with the camera in a corner at alpha 0.5.
ScenePip == <<Source(0, 0, 0, 1280, 720, Steps),
              Source(1, 900, 500, 320, 180, Steps \div 2)>>

\* A scene whose first source names a pad the compositor does not have.
SceneBad == <<Source(2, 0, 0, 640, 360, Steps),
              Source(1, 200, 200, 320, 240, Steps)>>

\* The scenes of a run, in the order they enter the switcher.
AllScenes == <<Scene0, SceneCam, ScenePip, SceneBad>>

\* How many of them SceneSwitcher::new is given.
InitialSceneCounts == {1, 3}

\* Indexes callers pass: every valid one and one that is never valid.
Indexes == 0 .. Len(AllScenes)

\* Geometry update_source_geometry is called with.
NewGeometries == {[x |-> 5, y |-> 5, width |-> 50, height |-> 50]}

PadIndexes == {0, 1, 2}

\* scenes[index], 0-based as in the code.
SceneAt(index) == scenes[index + 1]

IndexInRange(index) == index < Len(scenes)

PadsOf(sources) == {sources[k].pad_index : k \in DOMAIN sources}

\* compositor.static_pad("sink_<n>")
static_pad(pad) == pad \in ExistingPads

PadWriteSwapped(src, a) ==
    [xpos |-> src.x, ypos |-> src.y, width |-> src.height, height |-> src.width,
     alpha |-> a]

\* The five set_property calls on one pad.
PadWrite(src, a) ==
    [xpos |-> src.x, ypos |-> src.y, width |-> src.width, height |-> src.height,
     alpha |-> a]

\* The loop over a scene's sources shared by apply_scene_layout and the head
\* of fade_transition: it stops with an error at the first source whose pad
\* is missing, keeping what it wrote before.  `declared` selects the
\* source's own alpha; otherwise alpha 0 is written.
RECURSIVE PlaceSources(_, _, _, _)
PlaceSources(props, sources, k, declared) ==
    IF k > Len(sources) THEN [props |-> props, ok |-> TRUE]
    ELSE IF ~static_pad(sources[k].pad_index) THEN [props |-> props, ok |-> FALSE]
    ELSE PlaceSources(
             [props EXCEPT ![sources[k].pad_index] =
                 PadWrite(sources[k], IF declared THEN sources[k].alpha ELSE 0)],
             sources, k + 1, declared)

apply_scene_layout(props, scene_index) ==
    PlaceSources(props, SceneAt(scene_index), 1, TRUE)

PrePositionAtDeclaredAlpha(props, new_idx) ==
    PlaceSources(props, SceneAt(new_idx), 1, TRUE)

\* fade_transition up to the spawn: the new scene in place at alpha 0.
PrePosition(props, new_idx) ==
    PlaceSources(props, SceneAt(new_idx), 1, FALSE)

\* Set alpha on each existing pad of `sources`, in order.
RECURSIVE WriteAlpha(_, _, _, _)
WriteAlpha(props, sources, k, a) ==
    IF k > Len(sources) THEN props
    ELSE WriteAlpha(
             IF static_pad(sources[k].pad_index)
             THEN [props EXCEPT ![sources[k].pad_index].alpha = a]
             ELSE props,
             sources, k + 1, a)

NoGeometry == [x |-> 0, y |-> 0, width |-> 0, height |-> 0]

\* A call as its caller sees it: the operation, its arguments (pad and
\* geometry for update_source_geometry only) and the result.
Call(op, index, ret) ==
    [op |-> op, index |-> index, ret |-> ret, pad |-> 0, g |-> NoGeometry]

GeometryCall(scene_index, source_pad_index, g, ret) ==
    [op |-> "update_source_geometry", index |-> scene_index, ret |-> ret,
     pad |-> source_pad_index, g |-> g]

IndexAfterRangeErrorAssigned(index, cur) == index

IndexAfterRangeErrorClamped(index, cur) == Len(scenes)

\* current_scene_index after a call that failed its range check.
IndexAfterRangeError(index, cur) == cur

FadeNeededAlways(old_idx, new_index) == TRUE

\* fade_to_scene goes on past `if old_idx == new_index { return Ok(()) }`.
FadeNeeded(old_idx, new_index) == old_idx # new_index

GeometryWriteWithAlpha(props, g) ==
    [xpos |-> g.x, ypos |-> g.y, width |-> g.width, height |-> g.height,
     alpha |-> Steps]

\* The four set_property calls of update_source_geometry on one pad.
GeometryWrite(props, g) ==
    [xpos |-> g.x, ypos |-> g.y, width |-> g.width, height |-> g.height,
     alpha |-> props.alpha]

TasksAfterSpawnReplacing(tasks, task) == {task}

\* main_ctx.spawn_local: the new task joins those already on the main
\* context; no handle to any of them is kept.
TasksAfterSpawn(tasks, task) == tasks \cup {task}

IndexAfterRequestKept(old_idx, new_index) == old_idx

\* self.current_scene_index = new_index, ahead of fade_transition.
IndexAfterRequest(old_idx, new_index) == new_index

LoopContinuesShort(progress) == progress < Steps

\* while progress <= steps
LoopContinues(progress) == progress <= Steps

add_scene ==
    /\ compositorAlive
    /\ sceneCalls < MaxSceneCalls
    /\ UNCHANGED compositorAlive
    /\ Len(scenes) < Len(AllScenes)
    /\ scenes' = Append(scenes, AllScenes[Len(scenes) + 1])
    /\ lastCall' = Call("add_scene", Len(scenes), "Ok")
    /\ sceneCalls' = sceneCalls + 1
    /\ UNCHANGED <<current_scene_index, padProps, fades, fadesStarted>>
    /\ UNCHANGED <<accelVars, streamVars, outputVars, overlayVars,
                 recorderVars, controlVars>>

set_initial_scene(index) ==
    /\ compositorAlive
    /\ sceneCalls < MaxSceneCalls
    /\ UNCHANGED compositorAlive
    /\ sceneCalls' = sceneCalls + 1
    /\ IF ~IndexInRange(index)
       THEN /\ lastCall' = Call("set_initial_scene", index, "IndexOutOfRange")
            /\ current_scene_index' = IndexAfterRangeError(index, current_scene_index)
            /\ UNCHANGED padProps
       ELSE LET r == apply_scene_layout(padProps, index)
            IN  /\ current_scene_index' = index
                /\ padProps' = r.props
                /\ lastCall' = Call("set_initial_scene", index,
                                    IF r.ok THEN "Ok" ELSE "NotFound")
    /\ UNCHANGED <<scenes, fades, fadesStarted>>
    /\ UNCHANGED <<accelVars, streamVars, outputVars, overlayVars,
                 recorderVars, controlVars>>

\* fade_to_scene with fade_transition up to and including spawn_local; the
\* spawned task runs its first iteration later, from the main loop.
fade_to_scene(new_index) ==
    /\ compositorAlive
    /\ sceneCalls < MaxSceneCalls
    /\ UNCHANGED compositorAlive
    /\ sceneCalls' = sceneCalls + 1
    /\ IF ~IndexInRange(new_index)
       THEN /\ lastCall' = Call("fade_to_scene", new_index, "IndexOutOfRange")
            /\ current_scene_index' =
                   IndexAfterRangeError(new_index, current_scene_index)
            /\ UNCHANGED <<padProps, fades, fadesStarted>>
       ELSE IF ~FadeNeeded(current_scene_index, new_index)
       THEN /\ lastCall' = Call("fade_to_scene", new_index, "Ok")
            /\ UNCHANGED <<current_scene_index, padProps, fades, fadesStarted>>
       ELSE LET old_idx == current_scene_index
                r == PrePosition(padProps, new_index)
            IN  /\ current_scene_index' = IndexAfterRequest(old_idx, new_index)
                /\ padProps' = r.props
                /\ IF r.ok
                   THEN /\ fadesStarted < MaxFades
                        /\ fadesStarted' = fadesStarted + 1
                        /\ fades' = TasksAfterSpawn(fades,
                               [id |-> fadesStarted + 1,
                                old_scene_cloned |-> SceneAt(old_idx),
                                new_scene_cloned |-> SceneAt(new_index),
                                progress |-> 0,
                                old_alpha |-> -1,
                                new_alpha |-> -1])
                        /\ lastCall' = Call("fade_to_scene", new_index, "Ok")
                   ELSE /\ lastCall' = Call("fade_to_scene", new_index, "NotFound")
                        /\ UNCHANGED <<fades, fadesStarted>>
    /\ UNCHANGED scenes
    /\ UNCHANGED <<accelVars, streamVars, outputVars, overlayVars,
                 recorderVars, controlVars>>

update_source_geometry(scene_index, source_pad_index, g) ==
    /\ compositorAlive
    /\ sceneCalls < MaxSceneCalls
    /\ UNCHANGED compositorAlive
    /\ sceneCalls' = sceneCalls + 1
    /\ IF ~IndexInRange(scene_index)
       THEN /\ lastCall' = GeometryCall(scene_index, source_pad_index, g,
                                        "IndexOutOfRange")
            /\ UNCHANGED padProps
       ELSE IF source_pad_index \notin PadsOf(SceneAt(scene_index))
       THEN /\ lastCall' = GeometryCall(scene_index, source_pad_index, g,
                                        "NoSuchSource")
            /\ UNCHANGED padProps
       ELSE IF ~static_pad(source_pad_index)
       THEN /\ lastCall' = GeometryCall(scene_index, source_pad_index, g,
                                        "NotFound")
            /\ UNCHANGED padProps
       ELSE /\ padProps' = [padProps EXCEPT ![source_pad_index] =
                               GeometryWrite(@, g)]
            /\ lastCall' = GeometryCall(scene_index, source_pad_index, g, "Ok")
    /\ UNCHANGED <<scenes, current_scene_index, fades, fadesStarted>>
    /\ UNCHANGED <<accelVars, streamVars, outputVars, overlayVars,
                 recorderVars, controlVars>>

OldAlphaOffByOne(progress) == Steps - (progress + 1)

\* old_alpha = 1.0 - frac, with frac = progress / steps, in units of 1/Steps.
OldAlpha(progress) == Steps - progress

\* new_alpha = frac, in units of 1/Steps.
NewAlpha(progress) == progress

StepWritesOldOnly(props, f, alive) ==
    IF ~alive THEN props
    ELSE WriteAlpha(props, f.old_scene_cloned, 1, Steps - f.progress)

\* The writes of one iteration: when the compositor still exists, old_alpha
\* on the old scene's pads, then new_alpha on the new scene's pads.
StepWrites(props, f, alive) ==
    IF ~alive THEN props
    ELSE WriteAlpha(WriteAlpha(props, f.old_scene_cloned, 1, OldAlpha(f.progress)),
                    f.new_scene_cloned, 1, NewAlpha(f.progress))

\* One iteration of a fade task's loop: the alpha writes for the old scene,
\* then for the new scene, then progress += 1; the task then sleeps.
FadeStep(f) ==
    /\ f \in fades
    /\ LoopContinues(f.progress)
    /\ padProps' = StepWrites(padProps, f, compositorAlive)
    /\ fades' = (fades \ {f}) \cup
          {[f EXCEPT !.progress = f.progress + 1,
                     !.old_alpha = OldAlpha(f.progress),
                     !.new_alpha = NewAlpha(f.progress)]}
    /\ UNCHANGED <<scenes, current_scene_index, fadesStarted, lastCall, sceneCalls,
                   compositorAlive>>
    /\ UNCHANGED <<accelVars, streamVars, outputVars, overlayVars,
                 recorderVars, controlVars>>

\* The loop condition fails after the last sleep and the task ends.
FadeExit(f) ==
    /\ f \in fades
    /\ ~LoopContinues(f.progress)
    /\ fades' = fades \ {f}
    /\ UNCHANGED <<scenes, current_scene_index, padProps, fadesStarted, lastCall,
                   sceneCalls, compositorAlive>>
    /\ UNCHANGED <<accelVars, streamVars, outputVars, overlayVars,
                 recorderVars, controlVars>>

\* The SceneSwitcher and the pipeline are dropped and the compositor with
\* them: the tasks' weak reference stops upgrading, and no further call can
\* be made.
DropCompositor ==
    /\ compositorAlive
    /\ compositorAlive' = FALSE
    /\ UNCHANGED <<scenes, current_scene_index, padProps, fades, fadesStarted,
                   lastCall, sceneCalls>>
    /\ UNCHANGED <<accelVars, streamVars, outputVars, overlayVars,
                 recorderVars, controlVars>>

\* The pads as init_pipeline_with_advanced_features leaves them: xpos and
\* ypos set, width, height and alpha at the compositor's defaults.
InitialPads ==
    [p \in ExistingPads |->
        IF p = 0
        THEN [xpos |-> 0, ypos |-> 0, width |-> 0, height |-> 0, alpha |-> Steps]
        ELSE [xpos |-> 100, ypos |-> 100, width |-> 0, height |-> 0, alpha |-> Steps]]

InitScene ==
    /\ \E n \in InitialSceneCounts : scenes = SubSeq(AllScenes, 1, n)
    /\ current_scene_index = 0
    /\ padProps = InitialPads
    /\ fades = {}
    /\ fadesStarted = 0
    /\ lastCall = Call("new", 0, "Ok")
    /\ sceneCalls = 0
    /\ compositorAlive = TRUE

NextScene ==
    \/ add_scene
    \/ \E index \in Indexes : set_initial_scene(index)
    \/ \E new_index \in Indexes : fade_to_scene(new_index)
    \/ \E scene_index \in Indexes, pad \in PadIndexes, g \in NewGeometries :
           update_source_geometry(scene_index, pad, g)
    \/ \E f \in fades : FadeStep(f)
    \/ \E f \in fades : FadeExit(f)


(***************************************************************************)
(* Properties of the scene switcher                                        *)
(***************************************************************************)

\* The step is a SceneSwitcher call of operation `op`.
IsCall(op) == sceneCalls' # sceneCalls /\ lastCall'.op = op

Declared(src) ==
    [xpos |-> src.x, ypos |-> src.y, width |-> src.width, height |-> src.height,
     alpha |-> src.alpha]

NoFadeStarted == fades' = fades /\ fadesStarted' = fadesStarted

\* C2 (as stated): the last round of a fade that ran alone leaves every pad
\* of the outgoing scene A at alpha 0 and every pad of the incoming scene B
\* at alpha 1.
C2_OutgoingEndsAtZero ==
    [][\A f \in fades : \A g \in fades' :
          (fadesStarted = 1 /\ g.id = f.id /\ f.progress = Steps
              /\ g.progress = Steps + 1) =>
             /\ \A p \in PadsOf(f.old_scene_cloned) \cap ExistingPads :
                    padProps'[p].alpha = 0
             /\ \A p \in PadsOf(f.new_scene_cloned) :
                    padProps'[p].alpha = Steps]_vars

\* C2 (amended): a fade task performs exactly 31 write-rounds (steps 0..30)
\* and ends only after them; from round to round the alpha it writes for
\* A's sources never increases and the alpha it writes for B's sources never
\* decreases; each round leaves the pads used by A and not by B at the
\* outgoing alpha and B's pads at the incoming alpha; after the last round
\* these are 0 and 1.  A pad used by both scenes ends at 1.
C2_FadeRounds ==
    [][\A f \in fades :
          /\ (\A g \in fades' : g.id # f.id) => f.progress = Steps + 1
          /\ \A g \in fades' :
                (g.id = f.id /\ g # f) =>
                   /\ g.progress = f.progress + 1
                   /\ g.progress <= Steps + 1
                   /\ f.progress > 0 =>
                         /\ g.old_alpha <= f.old_alpha
                         /\ g.new_alpha >= f.new_alpha
                   /\ \A p \in (PadsOf(f.old_scene_cloned) \cap ExistingPads)
                                  \ PadsOf(f.new_scene_cloned) :
                          padProps'[p].alpha = g.old_alpha
                   /\ \A p \in PadsOf(f.new_scene_cloned) :
                          padProps'[p].alpha = g.new_alpha
                   /\ g.progress = Steps + 1 =>
                         g.old_alpha = 0 /\ g.new_alpha = Steps]_vars

\* The only fade of the run, from Scene0 to SceneCam, has done its last round.
C2_Witness ==
    /\ fadesStarted = 1
    /\ \E f \in fades :
          /\ f.progress = Steps + 1
          /\ f.old_scene_cloned = Scene0
          /\ f.new_scene_cloned = SceneCam
    /\ padProps[0].alpha = 0
    /\ padProps[1].alpha = Steps

\* C8 (as stated): for every valid index i, set_initial_scene(i) leaves the
\* pad of every source of scene i at the source's declared x, y, width,
\* height and alpha, sets current_scene_index to i and starts no fade.
C8_SetInitialAppliesEveryValidIndex ==
    [][(IsCall("set_initial_scene") /\ IndexInRange(lastCall'.index)) =>
          /\ current_scene_index' = lastCall'.index
          /\ NoFadeStarted
          /\ \A k \in DOMAIN SceneAt(lastCall'.index) :
                LET src == SceneAt(lastCall'.index)[k]
                IN  static_pad(src.pad_index) =>
                        padProps'[src.pad_index] = Declared(src)]_vars

\* C8 (amended): for every valid index i whose sources all name existing
\* compositor pads, set_initial_scene(i) returns Ok and leaves the pad of
\* every source of scene i at the source's declared x, y, width, height and
\* alpha, sets current_scene_index to i and starts no fade.
C8_SetInitialApplies ==
    [][(/\ IsCall("set_initial_scene")
        /\ IndexInRange(lastCall'.index)
        /\ PadsOf(SceneAt(lastCall'.index)) \subseteq ExistingPads) =>
          /\ lastCall'.ret = "Ok"
          /\ current_scene_index' = lastCall'.index
          /\ NoFadeStarted
          /\ \A k \in DOMAIN SceneAt(lastCall'.index) :
                LET src == SceneAt(lastCall'.index)[k]
                IN  padProps'[src.pad_index] = Declared(src)]_vars

C8_Witness ==
    /\ lastCall = Call("set_initial_scene", 2, "Ok")
    /\ current_scene_index = 2
    /\ padProps[0] = Declared(ScenePip[1])
    /\ padProps[1] = Declared(ScenePip[2])

\* C9: fade_to_scene(i) with i the current index returns Ok, starts no fade
\* task, writes no pad property and leaves current_scene_index unchanged.
C9_FadeToCurrentIsNoOp ==
    [][(/\ IsCall("fade_to_scene")
        /\ IndexInRange(lastCall'.index)
        /\ lastCall'.index = current_scene_index) =>
          /\ lastCall'.ret = "Ok"
          /\ NoFadeStarted
          /\ UNCHANGED <<padProps, current_scene_index, scenes>>]_vars

C9_Witness ==
    /\ lastCall = Call("fade_to_scene", 1, "Ok")
    /\ current_scene_index = 1
    /\ sceneCalls = 2
    /\ fadesStarted = 0

\* C10: fade_to_scene and set_initial_scene with an index >= the number of
\* scenes return IndexOutOfRange, leave current_scene_index unchanged, write
\* no pad property and start no fade task.
C10_InvalidIndexRejected ==
    [][(/\ IsCall("fade_to_scene") \/ IsCall("set_initial_scene")
        /\ ~IndexInRange(lastCall'.index)) =>
          /\ lastCall'.ret = "IndexOutOfRange"
          /\ NoFadeStarted
          /\ UNCHANGED <<padProps, current_scene_index, scenes>>]_vars

C10_Witness ==
    /\ lastCall = Call("fade_to_scene", Len(scenes), "IndexOutOfRange")
    /\ sceneCalls = 2
    /\ current_scene_index = 1

\* The fade task fade_transition spawns for a request from scene `old_idx`
\* to scene `new_index`, before its first iteration.
NewTask(old_idx, new_index) ==
    [id |-> fadesStarted + 1,
     old_scene_cloned |-> SceneAt(old_idx),
     new_scene_cloned |-> SceneAt(new_index),
     progress |-> 0, old_alpha |-> -1, new_alpha |-> -1]

\* C11 (as stated): fade_to_scene(i) with a valid i other than the current
\* index sets current_scene_index to i before it returns and before any fade
\* step has run, also while an earlier fade is in progress, and starts
\* exactly one new fade task from the previous current index to i.
C11_FadeRequestAlwaysStartsTask ==
    [][(/\ IsCall("fade_to_scene")
        /\ IndexInRange(lastCall'.index)
        /\ lastCall'.index # current_scene_index) =>
          /\ current_scene_index' = lastCall'.index
          /\ fadesStarted' = fadesStarted + 1
          /\ fades' = fades \cup {NewTask(current_scene_index, lastCall'.index)}]_vars

\* C11 (amended): the same for every such i whose scene names only existing
\* compositor pads: the call returns Ok, current_scene_index is i when it
\* returns, the tasks already running are untouched and exactly one task,
\* from the previous current scene to scene i and with no step run, is added.
\* When a pad of scene i is missing the index is still i and no task starts.
C11_FadeRequestStartsTask ==
    [][(/\ IsCall("fade_to_scene")
        /\ IndexInRange(lastCall'.index)
        /\ lastCall'.index # current_scene_index) =>
          /\ current_scene_index' = lastCall'.index
          /\ IF PadsOf(SceneAt(lastCall'.index)) \subseteq ExistingPads
             THEN /\ lastCall'.ret = "Ok"
                  /\ fadesStarted' = fadesStarted + 1
                  /\ NewTask(current_scene_index, lastCall'.index) \notin fades
                  /\ fades' = fades \cup
                         {NewTask(current_scene_index, lastCall'.index)}
             ELSE /\ lastCall'.ret = "NotFound"
                  /\ NoFadeStarted]_vars

\* A second fade has just been requested while the first is in mid-course.
C11_Witness ==
    /\ lastCall = Call("fade_to_scene", 2, "Ok")
    /\ current_scene_index = 2
    /\ fadesStarted = 2
    /\ \E f \in fades : f.id = 1 /\ f.progress \in 1 .. Steps
                         /\ f.new_scene_cloned = SceneCam
    /\ \E g \in fades : g.id = 2 /\ g.progress = 0
                         /\ g.old_scene_cloned = SceneCam
                         /\ g.new_scene_cloned = ScenePip

Moved(props, g) ==
    [xpos |-> g.x, ypos |-> g.y, width |-> g.width, height |-> g.height,
     alpha |-> props.alpha]

\* C18 (as stated): update_source_geometry fails and writes nothing when
\* scene_index is not a valid index or the scene has no source with the
\* given pad index; otherwise it writes x, y, width and height to that pad
\* at once, whether or not a fade is in flight, and leaves the pad's alpha
\* and current_scene_index unchanged.
C18_GeometryWrittenOtherwise ==
    [][IsCall("update_source_geometry") =>
          LET c == lastCall'
          IN  /\ current_scene_index' = current_scene_index
              /\ NoFadeStarted
              /\ IF \/ ~IndexInRange(c.index)
                    \/ c.pad \notin PadsOf(SceneAt(c.index))
                 THEN c.ret # "Ok" /\ padProps' = padProps
                 ELSE /\ c.ret = "Ok"
                      /\ c.pad \in DOMAIN padProps
                      /\ padProps' = [padProps EXCEPT ![c.pad] = Moved(@, c.g)]]_vars

\* C18 (amended): it also fails and writes nothing when the compositor has
\* no pad of that index; in the remaining case it returns Ok and writes x,
\* y, width and height to that pad only, with or without a fade in flight,
\* keeping the pad's alpha.  No call changes current_scene_index, the scene
\* list or the fade tasks.
C18_GeometryWritten ==
    [][IsCall("update_source_geometry") =>
          LET c == lastCall'
          IN  /\ current_scene_index' = current_scene_index
              /\ NoFadeStarted
              /\ scenes' = scenes
              /\ IF ~IndexInRange(c.index)
                 THEN c.ret = "IndexOutOfRange" /\ padProps' = padProps
                 ELSE IF c.pad \notin PadsOf(SceneAt(c.index))
                 THEN c.ret = "NoSuchSource" /\ padProps' = padProps
                 ELSE IF ~static_pad(c.pad)
                 THEN c.ret = "NotFound" /\ padProps' = padProps
                 ELSE /\ c.ret = "Ok"
                      /\ padProps' = [padProps EXCEPT ![c.pad] = Moved(@, c.g)]]_vars

\* The camera was moved ten steps into the fade that brings it in.
C18_Witness ==
    /\ \E g \in NewGeometries :
          /\ lastCall = GeometryCall(1, 1, g, "Ok")
          /\ padProps[1] = [xpos |-> g.x, ypos |-> g.y, width |-> g.width,
                            height |-> g.height, alpha |-> 10]
    /\ current_scene_index = 1
    /\ \E f \in fades : f.progress = 11 /\ f.new_scene_cloned = SceneCam


\* The fade task with identity i takes a step.
FadeStepOf(i) == \E f \in fades : f.id = i /\ FadeStep(f)

\* The main loop runs every task whose timer has expired.
FairFades == \A i \in 1 .. MaxFades : WF_vars(FadeStepOf(i))

Running(i) == \E f \in fades : f.id = i

\* The task has done step 30, its last.
DoneLastStep(i) == \E f \in fades : f.id = i /\ f.progress = Steps + 1

\* C20: a fade task is never cancelled: whatever calls are made while it
\* runs, it stays on the main context with its scenes, its progress moves
\* only by its own steps, one at a time, and it goes on to perform every
\* step up to and including step 30; several tasks can be active at once.
C20_FadeNeverCancelled ==
    /\ [][\A f \in fades :
            f.progress <= Steps =>
               \E g \in fades' :
                  /\ g.id = f.id
                  /\ g.progress \in {f.progress, f.progress + 1}
                  /\ g.old_scene_cloned = f.old_scene_cloned
                  /\ g.new_scene_cloned = f.new_scene_cloned]_vars
    /\ \A i \in 1 .. MaxFades : Running(i) ~> DoneLastStep(i)

\* The first fade has done its last step while a second, requested during
\* it, is in mid-course.
C20_Witness ==
    /\ DoneLastStep(1)
    /\ \E g \in fades : g.id = 2 /\ g.progress \in 1 .. Steps
    /\ fadesStarted = 2


\* Task f takes a step of its loop in this transition.
TakesStep(f) == \E g \in fades' : g.id = f.id /\ g.progress = f.progress + 1

\* C21: the transition in which a fade task runs one step contains all the
\* alpha writes of that step, for the outgoing and the incoming scene, and
\* nothing else: no other pad changes, no other task moves, no
\* SceneSwitcher call is made and the bitrate loop writes nothing.
C21_StepIsAtomic ==
    [][\A f \in fades :
          TakesStep(f) =>
             /\ \A p \in PadsOf(f.new_scene_cloned) \cap ExistingPads :
                    padProps'[p] = [padProps[p] EXCEPT !.alpha = f.progress]
             /\ \A p \in (PadsOf(f.old_scene_cloned) \cap ExistingPads)
                            \ PadsOf(f.new_scene_cloned) :
                    padProps'[p] = [padProps[p] EXCEPT !.alpha = Steps - f.progress]
             /\ \A p \in ExistingPads \ (PadsOf(f.old_scene_cloned)
                                           \cup PadsOf(f.new_scene_cloned)) :
                    padProps'[p] = padProps[p]
             /\ \A h \in fades : h.id # f.id => h \in fades'
             /\ UNCHANGED <<scenes, current_scene_index, lastCall, sceneCalls,
                            fadesStarted>>
             /\ UNCHANGED <<streamVars, accelVars, outputVars, overlayVars,
                 recorderVars, controlVars>>]_vars

\* Two tasks are in mid-course, and the one fading the two-source scene in
\* has just written both of its pads.
C21_Witness ==
    /\ \E f \in fades :
          /\ f.new_scene_cloned = ScenePip
          /\ f.progress = 5
          /\ padProps[0].alpha = 4
          /\ padProps[1].alpha = 4
    /\ \E h \in fades : h.old_scene_cloned = ScenePip /\ h.progress \in 1 .. Steps


\* The geometry properties of a pad.
Geometry(props) ==
    [xpos |-> props.xpos, ypos |-> props.ypos, width |-> props.width,
     height |-> props.height]

\* C22: when fade_to_scene has started a fade, before the task's step 0,
\* the pad of every source of the incoming scene is at the source's
\* declared x, y, width and height with alpha 0; a fade step changes the
\* geometry of no pad.
C22_PrePositionedThenAlphaOnly ==
    [][/\ (IsCall("fade_to_scene") /\ fadesStarted' # fadesStarted) =>
            /\ \A k \in DOMAIN SceneAt(lastCall'.index) :
                   LET src == SceneAt(lastCall'.index)[k]
                   IN  padProps'[src.pad_index] =
                          [xpos |-> src.x, ypos |-> src.y, width |-> src.width,
                           height |-> src.height, alpha |-> 0]
            /\ \A g \in fades' \ fades : g.progress = 0
       /\ \A f \in fades :
             TakesStep(f) =>
                \A p \in ExistingPads : Geometry(padProps'[p]) = Geometry(padProps[p])]_vars

\* The fade to the two-source scene has been requested and has not stepped.
C22_Witness ==
    /\ lastCall = Call("fade_to_scene", 2, "Ok")
    /\ \E f \in fades : f.new_scene_cloned = ScenePip /\ f.progress = 0
    /\ padProps[0] = [xpos |-> 0, ypos |-> 0, width |-> 1280, height |-> 720,
                      alpha |-> 0]
    /\ padProps[1] = [xpos |-> 900, ypos |-> 500, width |-> 320, height |-> 180,
                      alpha |-> 0]


\* C23: step n of a fade, 0 <= n <= 30, computes alpha (30 - n)/30 for the
\* outgoing scene and n/30 for the incoming scene, the two sum to 1 and lie
\* in [0, 1]; these are the values written to the pads of the two scenes'
\* sources (a pad of both scenes keeps the incoming value, written last),
\* and no pad ever holds an alpha outside [0, 1].
C23_StepAlphas ==
    /\ [][\A f \in fades : \A g \in fades' :
             (g.id = f.id /\ g.progress = f.progress + 1) =>
                /\ f.progress \in 0 .. Steps
                /\ g.old_alpha * Steps = (Steps - f.progress) * 30
                /\ g.new_alpha * Steps = f.progress * 30
                /\ g.old_alpha + g.new_alpha = Steps
                /\ g.old_alpha \in 0 .. Steps /\ g.new_alpha \in 0 .. Steps
                /\ \A p \in PadsOf(f.new_scene_cloned) \cap ExistingPads :
                       padProps'[p].alpha = g.new_alpha
                /\ \A p \in (PadsOf(f.old_scene_cloned) \cap ExistingPads)
                               \ PadsOf(f.new_scene_cloned) :
                       padProps'[p].alpha = g.old_alpha]_vars
    /\ [](\A p \in ExistingPads : padProps[p].alpha \in 0 .. Steps)

\* A fade from the first scene to the camera scene has just run step 30,
\* which wrote 0 to the outgoing pad and 1 to the incoming one.
C23_Witness ==
    \E f \in fades :
       /\ f.old_scene_cloned = Scene0 /\ f.new_scene_cloned = SceneCam
       /\ f.progress = Steps + 1
       /\ f.old_alpha = 0 /\ f.new_alpha = Steps
       /\ padProps[0].alpha = 0 /\ padProps[1].alpha = Steps


\* Every call made so far was a fade_to_scene that started a task, and
\* every one of those tasks has run its last step.
AllFadesFinished ==
    /\ fadesStarted >= 1
    /\ sceneCalls = fadesStarted
    /\ Cardinality(fades) = fadesStarted
    /\ \A f \in fades : f.progress = Steps + 1

\* The pads of the scenes the fades went from and to.
TouchedPads ==
    UNION {PadsOf(f.old_scene_cloned) \cup PadsOf(f.new_scene_cloned) : f \in fades}

C29_ErrorLeavesIndex ==
    [][((IsCall("set_initial_scene") \/ IsCall("fade_to_scene"))
          /\ lastCall'.ret # "Ok") =>
             /\ current_scene_index' = current_scene_index
             /\ fades' = fades
             /\ fadesStarted' = fadesStarted]_vars


\* The one call made so far was fade_to_scene(i), it started a fade, and
\* the fade has run its last step.
OnlyFadeFinished(i) ==
    /\ sceneCalls = 1
    /\ fadesStarted = 1
    /\ lastCall = Call("fade_to_scene", i, "Ok")
    /\ \E f \in fades : f.progress = Steps + 1

\* C30: when a fade to scene i has completed with no other fade or geometry
\* update overlapping it, the pads of scene i's sources have the geometry
\* and the alpha that set_initial_scene(i) would give them.
C30_FadeEndsAtLayout ==
    [](\A i \in Indexes :
          (IndexInRange(i) /\ OnlyFadeFinished(i)) =>
             \A p \in PadsOf(SceneAt(i)) \cap ExistingPads :
                padProps[p] = apply_scene_layout(padProps, i).props[p])


\* C31: when update_source_geometry(s, p, x, y, w, h) has succeeded and the
\* next call is a set_initial_scene(s) that succeeds or a fade_to_scene(s)
\* that starts a fade, that call places pad p at (x, y, w, h).
C31_GeometryUpdateDurable ==
    [][(/\ lastCall.op = "update_source_geometry" /\ lastCall.ret = "Ok"
        /\ \/ IsCall("set_initial_scene")
           \/ IsCall("fade_to_scene") /\ fadesStarted' # fadesStarted
        /\ lastCall'.ret = "Ok"
        /\ lastCall'.index = lastCall.index) =>
          Geometry(padProps'[lastCall.pad]) =
              [xpos |-> lastCall.g.x, ypos |-> lastCall.g.y,
               width |-> lastCall.g.width, height |-> lastCall.g.height]]_vars


(***************************************************************************)
(* Streaming output branches: add_output and link_input                    *)
(***************************************************************************)

\* add_output calls and link_input calls made in one run.
MaxAddCalls == 2

MaxLinkCalls == 1

Protocols == {"RTMP", "SRT", "HLS"}

\* The mux and sink factory of each protocol.
MuxOf(protocol) == IF protocol = "RTMP" THEN "flvmux" ELSE "mpegtsmux"

SinkOf(protocol) ==
    CASE protocol = "RTMP" -> "rtmpsink"
      [] protocol = "SRT" -> "srtsink"
      [] protocol = "HLS" -> "hlssink"

\* Upstream nodes link_input is given.
SrcElements == {<<0, "tee">>}

\* The nodes the n-th add_output call builds.
Queue(n) == <<n, "queue">>

Mux(n) == <<n, "mux">>

Sink(n) == <<n, "sink">>

\* How far add_output gets: the GStreamer call that fails, or "ok".  The
\* calls are listed in the order the code makes them.
AddSteps ==
    <<"make_queue", "make_mux", "make_sink",
      "add_queue", "add_mux", "add_sink",
      "sync_queue", "sync_mux", "sync_sink",
      "link_queue_mux", "link_mux_sink", "ok">>

StepNo(step) == CHOOSE i \in DOMAIN AddSteps : AddSteps[i] = step

\* The steps that were passed when the call stops at `step`.
Passed(step, earlier) == StepNo(earlier) < StepNo(step)

\* pipeline.add_many adds the three elements one after the other and
\* returns at the first that the bin refuses: those before it stay.
AddedNodes(n, step) ==
    (IF Passed(step, "add_queue") THEN {Queue(n)} ELSE {})
    \cup (IF Passed(step, "add_mux") THEN {Mux(n)} ELSE {})
    \cup (IF Passed(step, "add_sink") THEN {Sink(n)} ELSE {})

\* Element::link_many links pair by pair and returns at the first failure.
MadeLinks(n, step) ==
    (IF Passed(step, "link_queue_mux") THEN {<<Queue(n), Mux(n)>>} ELSE {})
    \cup (IF Passed(step, "link_mux_sink") THEN {<<Mux(n), Sink(n)>>} ELSE {})

\* The error add_output returns when it stops at `step`.
AddResult(step) ==
    CASE step = "ok" -> "Ok"
      [] step \in {"make_queue", "make_mux", "make_sink"} -> "ElementUnavailable"
      [] step \in {"add_queue", "add_mux", "add_sink"} -> "AddFailure"
      [] step \in {"sync_queue", "sync_mux", "sync_sink"} -> "SyncFailure"
      [] step \in {"link_queue_mux", "link_mux_sink"} -> "LinkFailure"

NodesAfterMakeFailureAdded(nodes, n, step) ==
    nodes \cup (IF step = "make_sink" THEN {Queue(n), Mux(n)} ELSE {})

\* The pipeline's branch nodes when add_output returns: `?` returns the
\* error at once and nothing is removed.
NodesAfter(nodes, n, step) == nodes \cup AddedNodes(n, step)

OutputsAfterPushedBeforeLink(outs, entry, step) ==
    IF step \in {"link_queue_mux", "link_mux_sink", "ok"}
    THEN Append(outs, entry) ELSE outs

\* self.outputs when add_output returns: the push is the last statement
\* before Ok(()), behind every `?`.
OutputsAfter(outs, entry, step) ==
    IF step = "ok" THEN Append(outs, entry) ELSE outs

add_output(protocol) ==
    /\ addCalls < MaxAddCalls
    /\ addCalls' = addCalls + 1
    /\ \E i \in DOMAIN AddSteps :
         LET step == AddSteps[i]
             n == addCalls + 1
         IN  /\ branchNodes' = NodesAfter(branchNodes, n, step)
             /\ branchLinks' = branchLinks \cup MadeLinks(n, step)
             /\ outputs' = OutputsAfter(outputs,
                                [protocol |-> protocol,
                                 elements |-> <<Queue(n), Mux(n), Sink(n)>>],
                                step)
             /\ outCall' = [op |-> "add_output", arg |-> <<n, protocol>>, id |-> n,
                            stopped |-> step, ret |-> AddResult(step),
                            tried |-> {}, linked |-> {}]
    /\ UNCHANGED linkCalls
    /\ UNCHANGED <<accelVars, streamVars, sceneVars, overlayVars,
                 recorderVars, controlVars>>

\* A queue has one sink pad: a link into it is possible only while that pad
\* is free.
SinkPadFree(ls, queue) == \A l \in ls : l[2] # queue

\* The branches link_input attempts when the link to branch `failAt` fails
\* (failAt = Len(outs) + 1: none fails).  `?` inside the loop: the branch
\* that fails is the last one attempted.
Tried(outs, failAt) == {k \in DOMAIN outs : k <= failAt}

LinksAfterRolledBack(ls, made, failed) == IF failed THEN ls ELSE ls \cup made

\* The links in place when link_input returns: those made before a failure
\* are kept.
LinksAfter(ls, made, failed) == ls \cup made

link_input(src_element) ==
    /\ linkCalls < MaxLinkCalls
    /\ linkCalls' = linkCalls + 1
    /\ \E failAt \in 1 .. Len(outputs) + 1 :
         LET linkedNow == {k \in DOMAIN outputs : k < failAt}
             made == {<<src_element, outputs[k].elements[1]>> : k \in linkedNow}
         IN  /\ \A k \in linkedNow :
                   SinkPadFree(branchLinks, outputs[k].elements[1])
             /\ branchLinks' = LinksAfter(branchLinks, made, failAt <= Len(outputs))
             /\ outCall' = [op |-> "link_input", arg |-> src_element,
                            id |-> linkCalls + 1,
                            stopped |-> IF failAt <= Len(outputs)
                                        THEN "link_src_queue" ELSE "ok",
                            ret |-> IF failAt <= Len(outputs)
                                    THEN "LinkFailure" ELSE "Ok",
                            tried |-> {outputs[k].elements[1] :
                                          k \in Tried(outputs, failAt)},
                            linked |-> made]
    /\ UNCHANGED <<outputs, branchNodes, addCalls>>
    /\ UNCHANGED <<accelVars, streamVars, sceneVars, overlayVars,
                 recorderVars, controlVars>>

InitOutputs ==
    /\ outputs = <<>>
    /\ branchNodes = {}
    /\ branchLinks = {}
    /\ outCall = [op |-> "new", arg |-> <<0, "none">>, id |-> 0, stopped |-> "ok",
                  ret |-> "Ok", tried |-> {}, linked |-> {}]
    /\ addCalls = 0
    /\ linkCalls = 0

NextOutputs ==
    \/ \E protocol \in Protocols : add_output(protocol)
    \/ \E src_element \in SrcElements : link_input(src_element)

(***************************************************************************)
(* Properties of the output branches                                       *)
(***************************************************************************)

\* The step is a MultiStreamingManager call of operation `op`.
IsOutCall(op) ==
    /\ addCalls' # addCalls \/ linkCalls' # linkCalls
    /\ outCall'.op = op

\* The nodes of the branch the n-th add_output call builds.
BranchOf(n) == {Queue(n), Mux(n), Sink(n)}

\* The queues of the branches in the output list.
QueuesOf(outs) == {outs[k].elements[1] : k \in DOMAIN outs}

\* C13: when add_output fails because the mux or the sink cannot be
\* instantiated, no node of that branch is in the graph and the output list
\* is unchanged.
C13_NothingAttachedOnMakeFailure ==
    [][(/\ IsOutCall("add_output")
        /\ outCall'.stopped \in {"make_mux", "make_sink"}) =>
          /\ outCall'.ret = "ElementUnavailable"
          /\ BranchOf(outCall'.id) \cap branchNodes' = {}
          /\ branchNodes' = branchNodes
          /\ branchLinks' = branchLinks
          /\ outputs' = outputs]_vars

\* The second add_output stopped at its sink; the first branch is intact.
C13_Witness ==
    /\ outCall.op = "add_output"
    /\ outCall.stopped = "make_sink"
    /\ outCall.ret = "ElementUnavailable"
    /\ outCall.id = 2
    /\ Len(outputs) = 1
    /\ branchNodes = BranchOf(1)

\* C14: when add_output fails after the branch nodes were added to the
\* graph (linking, state synchronisation), none of the queue, mux and sink
\* nodes of that branch remains in the graph when it returns.
C14_BranchRolledBack ==
    [][(/\ IsOutCall("add_output")
        /\ outCall'.ret \in {"AddFailure", "SyncFailure", "LinkFailure"}) =>
          BranchOf(outCall'.id) \cap branchNodes' = {}]_vars

\* C15: link_input attempts the link to the queue of every existing branch,
\* also after a link to an earlier branch failed.
C15_EveryBranchAttempted ==
    [][IsOutCall("link_input") => outCall'.tried = QueuesOf(outputs)]_vars

\* C16: when link_input fails on some branch, every branch it linked earlier
\* in the same call is still linked when it returns, and no link, node or
\* output that was there before the call is gone.
C16_EarlierLinksKept ==
    [][(IsOutCall("link_input") /\ outCall'.ret = "LinkFailure") =>
          /\ outCall'.linked \subseteq branchLinks'
          /\ branchLinks \subseteq branchLinks'
          /\ branchNodes' = branchNodes
          /\ outputs' = outputs]_vars

\* link_input linked the first of two branches and failed on the second.
C16_Witness ==
    /\ outCall.op = "link_input"
    /\ outCall.ret = "LinkFailure"
    /\ Len(outputs) = 2
    /\ \E src \in SrcElements :
          /\ outCall.linked = {<<src, outputs[1].elements[1]>>}
          /\ <<src, outputs[1].elements[1]>> \in branchLinks
          /\ <<src, outputs[2].elements[1]>> \notin branchLinks


\* C33: the output list changes only by an add_output call that returns Ok
\* appending one entry; an add_output call that returns an error leaves it
\* unchanged; and the queue, mux and sink of every entry are in the graph,
\* linked queue -> mux and mux -> sink.
C33_OutputsOnlyOnSuccess ==
    /\ [][outputs' # outputs =>
             /\ IsOutCall("add_output") /\ outCall'.ret = "Ok"
             /\ Len(outputs') = Len(outputs) + 1
             /\ SubSeq(outputs', 1, Len(outputs)) = outputs]_vars
    /\ [][(IsOutCall("add_output") /\ outCall'.ret # "Ok") =>
             outputs' = outputs]_vars
    /\ [](\A k \in DOMAIN outputs :
             LET e == outputs[k].elements
             IN  /\ {e[1], e[2], e[3]} \subseteq branchNodes
                 /\ <<e[1], e[2]>> \in branchLinks
                 /\ <<e[2], e[3]>> \in branchLinks)

\* A first add_output has stored its branch; a second one failed on the
\* link from mux to sink and left its nodes behind, but no entry.
C33_Witness ==
    /\ Len(outputs) = 1
    /\ outputs[1].elements = <<Queue(1), Mux(1), Sink(1)>>
    /\ outCall.op = "add_output" /\ outCall.id = 2
    /\ outCall.stopped = "link_mux_sink"
    /\ BranchOf(2) \subseteq branchNodes


(***************************************************************************)
(* Overlay manager: add_text_overlay and start_rotating_messages           *)
(***************************************************************************)

\* OverlayManager calls made and rotation task iterations run.
MaxOverlayCalls == 3

MaxRotTicks == 4

\* The text add_text_overlay is called with by the settings dialog.
HelloText == "Hello from Overlays!"

\* The list the settings dialog passes to start_rotating_messages.
ProgramMessages ==
    <<"Sponsored by Rust!", "Waycord: Next-gen screen recorder",
      "Visit example.org for more info">>

\* The lists a caller may pass: none, the program's, and a shorter one.
MessageLists == {<<>>, ProgramMessages, <<"Back in five minutes">>}

\* How far add_text_overlay gets before it returns.
OverlayOutcomes == {"MakeFailure", "AddFailure", "SyncFailure", "LinkFailure", "Ok"}

OverlayCall(op, ret) == [op |-> op, ret |-> ret]

NextIndexUnwrapped(idx, len) == idx + 1

\* *idx = (*idx + 1) % msgs.len()
NextIndex(idx, len) == (idx + 1) % len

\* add_text_overlay("hello_overlay", ..): the element is made and its
\* properties set, then added to the pipeline, synchronised, linked and
\* pushed; each `?` returns with what was done so far left in place.
\* Bin::add refuses a second element of the same name.
add_text_overlay(outcome) ==
    /\ overlayAlive /\ ~rotPanicked
    /\ ovCalls < MaxOverlayCalls
    /\ ovCalls' = ovCalls + 1
    /\ overlayInPipeline => outcome \in {"MakeFailure", "AddFailure"}
    /\ ovCall' = OverlayCall("add_text_overlay", outcome)
    /\ IF outcome \in {"MakeFailure", "AddFailure"}
       THEN UNCHANGED <<overlayInPipeline, overlayText, text_overlays>>
       ELSE /\ overlayInPipeline' = TRUE
            /\ overlayText' = HelloText
            /\ text_overlays' = IF outcome = "Ok" THEN text_overlays + 1
                                ELSE text_overlays
    /\ UNCHANGED <<overlayAlive, rotating_msgs, current_msg_index, rotTasks,
                   rotPanicked, shown, startIndex, ovTicks>>
    /\ UNCHANGED <<accelVars, streamVars, sceneVars, outputVars,
                 recorderVars, controlVars>>

\* start_rotating_messages("hello_overlay", messages, interval): the empty
\* check, the store, the lookup by name, then spawn_local.
start_rotating_messages(messages) ==
    /\ overlayAlive /\ ~rotPanicked
    /\ ovCalls < MaxOverlayCalls
    /\ ovCalls' = ovCalls + 1
    /\ IF messages = <<>>
       THEN /\ ovCall' = OverlayCall("start_rotating_messages", "NoMessages")
            /\ UNCHANGED <<rotating_msgs, current_msg_index, rotTasks, shown,
                           startIndex>>
       ELSE /\ rotating_msgs' = messages
            /\ UNCHANGED current_msg_index
            /\ startIndex' = current_msg_index
            /\ shown' = <<>>
            /\ IF overlayInPipeline
               THEN /\ rotTasks' = rotTasks \cup {Cardinality(rotTasks) + 1}
                    /\ ovCall' = OverlayCall("start_rotating_messages", "Ok")
               ELSE /\ ovCall' = OverlayCall("start_rotating_messages", "NotFound")
                    /\ UNCHANGED rotTasks
    /\ UNCHANGED <<overlayInPipeline, text_overlays, overlayText, overlayAlive,
                   rotPanicked, ovTicks>>
    /\ UNCHANGED <<accelVars, streamVars, sceneVars, outputVars,
                 recorderVars, controlVars>>

\* One iteration of a rotation task, after its sleep: both locks taken,
\* `continue` on an empty list, msgs[*idx] (which panics when the index is
\* out of bounds), the write if the overlay still exists, then the advance.
RotationTick(t) ==
    /\ t \in rotTasks
    /\ ~rotPanicked
    /\ ovTicks < MaxRotTicks
    /\ ovTicks' = ovTicks + 1
    /\ IF rotating_msgs = <<>>
       THEN UNCHANGED <<overlayText, current_msg_index, rotPanicked, shown>>
       ELSE IF current_msg_index >= Len(rotating_msgs)
       THEN /\ rotPanicked' = TRUE
            /\ UNCHANGED <<overlayText, current_msg_index, shown>>
       ELSE LET message == rotating_msgs[current_msg_index + 1]
            IN  /\ IF overlayAlive
                   THEN /\ overlayText' = message
                        /\ shown' = Append(shown, message)
                   ELSE UNCHANGED <<overlayText, shown>>
                /\ current_msg_index' =
                       NextIndex(current_msg_index, Len(rotating_msgs))
                /\ UNCHANGED rotPanicked
    /\ UNCHANGED <<overlayInPipeline, text_overlays, overlayAlive, rotating_msgs,
                   rotTasks, startIndex, ovCall, ovCalls>>
    /\ UNCHANGED <<accelVars, streamVars, sceneVars, outputVars,
                 recorderVars, controlVars>>

\* The pipeline is dropped and the overlay element with it: the tasks' weak
\* reference stops upgrading, and no further call can be made.
DropOverlay ==
    /\ overlayAlive
    /\ overlayInPipeline
    /\ overlayAlive' = FALSE
    /\ UNCHANGED <<overlayInPipeline, text_overlays, overlayText, rotating_msgs,
                   current_msg_index, rotTasks, rotPanicked, shown, startIndex,
                   ovCall, ovCalls, ovTicks>>
    /\ UNCHANGED <<accelVars, streamVars, sceneVars, outputVars,
                 recorderVars, controlVars>>

InitOverlay ==
    /\ overlayInPipeline = FALSE
    /\ text_overlays = 0
    /\ overlayText = ""
    /\ overlayAlive = TRUE
    /\ rotating_msgs = <<>>
    /\ current_msg_index = 0
    /\ rotTasks = {}
    /\ rotPanicked = FALSE
    /\ shown = <<>>
    /\ startIndex = 0
    /\ ovCall = OverlayCall("new", "Ok")
    /\ ovCalls = 0
    /\ ovTicks = 0

NextOverlay ==
    \/ \E outcome \in OverlayOutcomes : add_text_overlay(outcome)
    \/ \E messages \in MessageLists : start_rotating_messages(messages)
    \/ \E t \in rotTasks : RotationTick(t)
    \/ DropOverlay

\* The step is one iteration of a rotation task.
IsRotationTick == ovTicks' # ovTicks

\* Message number j (0-based) of the stored list, counted cyclically.
MessageAt(j) == rotating_msgs[(j % Len(rotating_msgs)) + 1]

C36_IndexInsideListWhenRead ==
    [][(IsRotationTick /\ rotating_msgs # <<>>) =>
          current_msg_index < Len(rotating_msgs)]_vars

\* C37: a start_rotating_messages call that returns an error leaves the
\* stored message list as it was and starts no rotation task.
C37_ErrorLeavesRotationAlone ==
    [][(/\ ovCalls' # ovCalls
        /\ ovCall'.op = "start_rotating_messages"
        /\ ovCall'.ret \in {"NoMessages", "NotFound"}) =>
          /\ rotating_msgs' = rotating_msgs
          /\ rotTasks' = rotTasks]_vars


(***************************************************************************)
(* Recorder command loop (src/recorder.rs)                                 *)
(*                                                                         *)
(* Recorder::run is one thread: it receives a command, and for             *)
(* StartRecording it runs start_recording to its end (rt.block_on) before  *)
(* it receives the next one.  Whoever holds the Sender is the environment. *)
(***************************************************************************)

MaxSends == 3

\* The capture loop's iterations are counted modulo this window.
IterWindow == 2

\* A path a sender passes with StartRecording.
RecordingPath == "capture.mp4"

Command(cmd, path) == [cmd |-> cmd, path |-> path]

StartRecording(path) == Command("StartRecording", path)

StopRecording == Command("StopRecording", "")

\* What a fallible call (`?`) of start_recording may give.
CallOutcomes == {"Ok", "Err"}

\* sender.send(command): the channel is unbounded.
Send(command) ==
    /\ senderAlive
    /\ sends < MaxSends
    /\ sends' = sends + 1
    /\ receiver' = Append(receiver, command)
    /\ UNCHANGED <<senderAlive, recPc, stop_flag, recPath, iterations, recResult>>
    /\ UNCHANGED <<accelVars, streamVars, sceneVars, outputVars, overlayVars,
                   controlVars>>

\* The last Sender is dropped.
DropSender ==
    /\ senderAlive
    /\ senderAlive' = FALSE
    /\ UNCHANGED <<receiver, recPc, stop_flag, recPath, iterations, recResult,
                   sends>>
    /\ UNCHANGED <<accelVars, streamVars, sceneVars, outputVars, overlayVars,
                   controlVars>>

\* `while let Ok(command) = self.receiver.recv()` with a command waiting,
\* and the match arm up to the call of start_recording.
Recv ==
    /\ recPc = "recv"
    /\ receiver # <<>>
    /\ receiver' = Tail(receiver)
    /\ LET command == Head(receiver)
       IN  IF command.cmd = "StartRecording"
           THEN /\ stop_flag' = FALSE
                /\ recPc' = "setup"
                /\ recPath' = command.path
           ELSE /\ stop_flag' = TRUE
                /\ UNCHANGED <<recPc, recPath>>
    /\ UNCHANGED <<senderAlive, iterations, recResult, sends>>
    /\ UNCHANGED <<accelVars, streamVars, sceneVars, outputVars, overlayVars,
                   controlVars>>

\* recv() on an empty channel whose senders are gone returns Err: run ends.
RecvDisconnected ==
    /\ recPc = "recv"
    /\ receiver = <<>>
    /\ ~senderAlive
    /\ recPc' = "exited"
    /\ UNCHANGED <<receiver, senderAlive, stop_flag, recPath, iterations,
                   recResult, sends>>
    /\ UNCHANGED <<accelVars, streamVars, sceneVars, outputVars, overlayVars,
                   controlVars>>

\* start_recording up to the capture loop: PipeWire, the screen cast, the
\* FFmpeg output, the encoders and the listeners; any `?` returns Err, which
\* run logs before it receives the next command.
start_recording_setup(outcome) ==
    /\ recPc = "setup"
    /\ IF outcome = "Ok"
       THEN /\ recPc' = "capture"
            /\ iterations' = 0
            /\ UNCHANGED <<recPath, recResult>>
       ELSE /\ recPc' = "recv"
            /\ recPath' = ""
            /\ recResult' = "Err"
            /\ UNCHANGED iterations
    /\ UNCHANGED <<receiver, senderAlive, stop_flag, sends>>
    /\ UNCHANGED <<accelVars, streamVars, sceneVars, outputVars, overlayVars,
                   controlVars>>

\* One evaluation of `while !stop_flag.load(..)`: with the flag false one
\* mainloop.iterate(true)?, with the flag true the cleanup (flushes, the
\* trailer) and the return.
capture_loop(outcome) ==
    /\ recPc = "capture"
    /\ IF ~stop_flag /\ outcome = "Ok"
       THEN /\ iterations' = (iterations + 1) % IterWindow
            /\ UNCHANGED <<recPc, recPath, recResult>>
       ELSE /\ recPc' = "recv"
            /\ recPath' = ""
            /\ recResult' = outcome
            /\ UNCHANGED iterations
    /\ UNCHANGED <<receiver, senderAlive, stop_flag, sends>>
    /\ UNCHANGED <<accelVars, streamVars, sceneVars, outputVars, overlayVars,
                   controlVars>>

InitRecorder ==
    /\ receiver = <<>>
    /\ senderAlive = TRUE
    /\ recPc = "recv"
    /\ stop_flag = FALSE
    /\ recPath = ""
    /\ iterations = 0
    /\ recResult = "None"
    /\ sends = 0

NextRecorder ==
    \/ \E command \in {StartRecording(RecordingPath), StopRecording} :
          Send(command)
    \/ DropSender
    \/ Recv
    \/ RecvDisconnected
    \/ \E outcome \in CallOutcomes : start_recording_setup(outcome)
    \/ \E outcome \in CallOutcomes : capture_loop(outcome)

\* The recorder thread is an operating-system thread of its own: whichever
\* of its steps is possible is eventually taken.  Nothing obliges the
\* holder of the Sender to send or to drop it, nor a library call to fail.
FairRecorder ==
    /\ WF_vars(Recv)
    /\ WF_vars(RecvDisconnected)
    /\ WF_vars(\E outcome \in CallOutcomes : start_recording_setup(outcome))
    /\ WF_vars(\E outcome \in CallOutcomes : capture_loop(outcome))

\* C38: when a StopRecording command has been sent after the StartRecording
\* command whose recording is in progress, eventually the stop flag is true
\* and start_recording has returned, the loop being back at recv().
C38_StopEndsRecording ==
    (/\ recPc = "capture"
     /\ \E i \in 1 .. Len(receiver) : receiver[i] = StopRecording)
        ~> (stop_flag /\ recPc = "recv")

(***************************************************************************)
(* Recording controls (src/gui/controls.rs) and the recording pipeline     *)
(* they drive (src/core/encoder.rs)                                        *)
(***************************************************************************)

MaxClicks == 4

\* What the filename entry may hold: nothing, or a name.
Filenames == {"", "capture"}

\* What a click did: a panic in a handler ends the process.
Click(button, ret) == [button |-> button, ret |-> ret]

ControlsRunning == lastClick.ret # "Panic"

\* The user edits the filename entry.
TypeFilename(text) ==
    /\ ControlsRunning
    /\ text # filename
    /\ filename' = text
    /\ UNCHANGED <<is_recording, is_paused, RECORDING_PIPELINE, stopSensitive,
                   pauseLabel, lastClick, clicks>>
    /\ UNCHANGED <<accelVars, streamVars, sceneVars, outputVars, overlayVars,
                   recorderVars>>

\* start_btn clicked: start_recording_with_audio_sources builds the
\* pipeline (parse_launch .expect, set_state(Playing).unwrap()) and stores
\* it in RECORDING_PIPELINE.
StartClick(outcome) ==
    /\ ControlsRunning
    /\ clicks < MaxClicks
    /\ clicks' = clicks + 1
    /\ IF is_recording
       THEN /\ outcome = "Ok"
            /\ lastClick' = Click("start", "Ignored")
            /\ UNCHANGED <<is_recording, RECORDING_PIPELINE, stopSensitive>>
       ELSE IF filename = ""
       THEN /\ outcome = "Ok"
            /\ lastClick' = Click("start", "NoFilename")
            /\ UNCHANGED <<is_recording, RECORDING_PIPELINE, stopSensitive>>
       ELSE IF outcome = "Panic"
       THEN /\ lastClick' = Click("start", "Panic")
            /\ UNCHANGED <<is_recording, RECORDING_PIPELINE, stopSensitive>>
       ELSE /\ RECORDING_PIPELINE' = "Playing"
            /\ is_recording' = TRUE
            /\ stopSensitive' = TRUE
            /\ lastClick' = Click("start", "Started")
    /\ UNCHANGED <<is_paused, filename, pauseLabel>>
    /\ UNCHANGED <<accelVars, streamVars, sceneVars, outputVars, overlayVars,
                   recorderVars>>

\* stop_btn clicked (an insensitive button emits no click): stop_recording
\* takes the pipeline out of RECORDING_PIPELINE and sets it to Null.
StopClick(outcome) ==
    /\ ControlsRunning
    /\ stopSensitive
    /\ clicks < MaxClicks
    /\ clicks' = clicks + 1
    /\ IF ~is_recording
       THEN /\ outcome = "Ok"
            /\ lastClick' = Click("stop", "Ignored")
            /\ UNCHANGED <<is_recording, RECORDING_PIPELINE, stopSensitive>>
       ELSE /\ RECORDING_PIPELINE = "None" => outcome = "Ok"
            /\ RECORDING_PIPELINE' = "None"
            /\ IF outcome = "Panic"
               THEN /\ lastClick' = Click("stop", "Panic")
                    /\ UNCHANGED <<is_recording, stopSensitive>>
               ELSE /\ is_recording' = FALSE
                    /\ stopSensitive' = FALSE
                    /\ lastClick' = Click("stop", "Stopped")
    /\ UNCHANGED <<is_paused, filename, pauseLabel>>
    /\ UNCHANGED <<accelVars, streamVars, sceneVars, outputVars, overlayVars,
                   recorderVars>>

\* resume_recording / pause_recording: with a pipeline in
\* RECORDING_PIPELINE its state is set (.unwrap()), without one nothing.
SetRecordingState(state, outcome) ==
    IF RECORDING_PIPELINE = "None"
    THEN outcome = "Ok" /\ UNCHANGED RECORDING_PIPELINE
    ELSE IF outcome = "Panic"
    THEN UNCHANGED RECORDING_PIPELINE
    ELSE RECORDING_PIPELINE' = state

\* pause_btn clicked: the handler looks at is_paused only.
PauseClick(outcome) ==
    /\ ControlsRunning
    /\ clicks < MaxClicks
    /\ clicks' = clicks + 1
    /\ IF is_paused
       THEN /\ SetRecordingState("Playing", outcome)
            /\ IF outcome = "Panic"
               THEN /\ lastClick' = Click("pause", "Panic")
                    /\ UNCHANGED <<pauseLabel, is_paused>>
               ELSE /\ pauseLabel' = "Pause"
                    /\ is_paused' = FALSE
                    /\ lastClick' = Click("pause", "Resumed")
       ELSE /\ SetRecordingState("Paused", outcome)
            /\ IF outcome = "Panic"
               THEN /\ lastClick' = Click("pause", "Panic")
                    /\ UNCHANGED <<pauseLabel, is_paused>>
               ELSE /\ pauseLabel' = "Resume"
                    /\ is_paused' = TRUE
                    /\ lastClick' = Click("pause", "Paused")
    /\ UNCHANGED <<is_recording, filename, stopSensitive>>
    /\ UNCHANGED <<accelVars, streamVars, sceneVars, outputVars, overlayVars,
                   recorderVars>>

InitControls ==
    /\ is_recording = FALSE
    /\ is_paused = FALSE
    /\ RECORDING_PIPELINE = "None"
    /\ filename = ""
    /\ stopSensitive = FALSE
    /\ pauseLabel = "Pause"
    /\ lastClick = Click("none", "Built")
    /\ clicks = 0

NextControls ==
    \/ \E text \in Filenames : TypeFilename(text)
    \/ \E outcome \in {"Ok", "Panic"} : StartClick(outcome)
    \/ \E outcome \in {"Ok", "Panic"} : StopClick(outcome)
    \/ \E outcome \in {"Ok", "Panic"} : PauseClick(outcome)

\* C39: while the controls are running, is_paused is true exactly when a
\* recording pipeline exists and is in the Paused state.
C39_PausedFlagMatchesPipeline ==
    ControlsRunning => (is_paused <=> RECORDING_PIPELINE = "Paused")

(***************************************************************************)
(* The two kinds of timer task on the one main loop, with teardown         *)
(***************************************************************************)

\* Fade tasks started and bitrate ticks taken in the composed model.
MaxTaskFades == 1

MaxTaskTicks == 3

\* The switcher with all four scenes declared, before any further call.
InitTasksScene ==
    /\ scenes = AllScenes
    /\ current_scene_index = 0
    /\ padProps = InitialPads
    /\ fades = {}
    /\ fadesStarted = 0
    /\ lastCall = Call("new", 0, "Ok")
    /\ sceneCalls = 0
    /\ compositorAlive = TRUE

InitTasks ==
    /\ InitAccel /\ InitStream /\ InitTasksScene /\ InitOutputs /\ InitOverlay
    /\ InitRecorder /\ InitControls

\* Fade requests made while no fade is running, the tasks of both
\* components and the teardowns, interleaved as the main loop may run them.
NextTasks ==
    \/ \E new_index \in Indexes :
           /\ fades = {}
           /\ fadesStarted < MaxTaskFades
           /\ fade_to_scene(new_index)
    \/ \E f \in fades : FadeStep(f)
    \/ \E f \in fades : FadeExit(f)
    \/ DropCompositor
    \/ start_adaptive_bitrate
    \/ abr.last_time < MaxTaskTicks * CheckInterval /\ BitrateTick(CheckInterval)
    \/ DropEncoder

\* C25: a fade step taken after the compositor is gone, or for a source
\* whose pad does not exist, writes nothing for it and still moves the task
\* to its next step, and every unfinished task can take its next step
\* whether or not the compositor exists; a bitrate tick taken after the
\* encoder is gone writes no bitrate, keeps the loop's bitrate and leaves
\* the loop running with its snapshots taken.
C25_TasksSurviveTeardown ==
    /\ [][\A f \in fades : TakesStep(f) =>
             /\ ~compositorAlive => padProps' = padProps
             /\ \A p \in ExistingPads \ (PadsOf(f.old_scene_cloned)
                                           \cup PadsOf(f.new_scene_cloned)) :
                    padProps'[p] = padProps[p]
             /\ DOMAIN padProps' = ExistingPads]_vars
    /\ [](\A f \in fades : f.progress <= Steps => ENABLED FadeStep(f))
    /\ [][(IsTick /\ ~encoderAlive) =>
             /\ encBitrate' = encBitrate
             /\ abr'.current_bitrate = abr.current_bitrate
             /\ abr'.last_bytes = bytes_sent
             /\ abrStarted']_vars
    /\ [][abrStarted => abrStarted']_vars

\* With the compositor and the encoder both gone, a fade whose outgoing
\* scene names a missing pad has run all its steps, the pads still as they
\* were when the compositor went, and the bitrate loop has ticked since the
\* encoder went.
C25_Witness ==
    /\ ~compositorAlive
    /\ ~encoderAlive
    /\ \E f \in fades : /\ f.old_scene_cloned = SceneBad
                         /\ f.progress = Steps + 1
    /\ padProps[1].alpha = 10
    /\ abr.branch = "gone"
    /\ encBitrate = <<InitialBitrate + BitrateStep>>


\* Every SceneSwitcher call, fade requests made while no fade is running,
\* the fade task and the bitrate loop, from the constructed state.
NextBoth ==
    \/ add_scene
    \/ \E index \in Indexes : set_initial_scene(index)
    \/ \E new_index \in Indexes :
           /\ fades = {}
           /\ fadesStarted < MaxTaskFades
           /\ fade_to_scene(new_index)
    \/ \E scene_index \in Indexes, pad \in PadIndexes, g \in NewGeometries :
           update_source_geometry(scene_index, pad, g)
    \/ \E f \in fades : FadeStep(f)
    \/ \E f \in fades : FadeExit(f)
    \/ start_adaptive_bitrate
    \/ abr.last_time < MaxTaskTicks * CheckInterval /\ BitrateTick(CheckInterval)

\* The nodes and links of the pipeline, as far as they are modelled.
NodeGraph == <<pipelineNodes, links, branchNodes, branchLinks>>

\* The step is a SceneSwitcher call or a step of one of its fade tasks.
IsSceneStep == sceneVars' # sceneVars

\* C26: a SceneSwitcher call or a fade task's step changes, of all node
\* properties, only compositor pad properties: the encoder's bitrate, the
\* bitrate loop's state and the node graph are as before; a bitrate tick
\* changes, of all node properties, only the encoder's bitrate: every
\* compositor pad property, the switcher's state and the node graph are as
\* before.
C26_DisjointWrites ==
    [][/\ IsSceneStep =>
            /\ encBitrate' = encBitrate
            /\ UNCHANGED streamVars
            /\ UNCHANGED NodeGraph
       /\ IsTick =>
            /\ padProps' = padProps
            /\ UNCHANGED sceneVars
            /\ UNCHANGED NodeGraph]_vars

\* A fade is under way, its last step written to both pads, and the loop
\* has ticked twice and pushed two raised bitrates to the encoder.
C26_Witness ==
    /\ \E f \in fades : f.new_scene_cloned = SceneCam /\ f.progress = 8
    /\ padProps[0].alpha = Steps - 7
    /\ padProps[1].alpha = 7
    /\ abr.last_time = 2 * CheckInterval
    /\ encBitrate = <<InitialBitrate + 2 * BitrateStep>>


Init ==
    /\ InitAccel /\ InitStream /\ InitScene /\ InitOutputs /\ InitOverlay
    /\ InitRecorder /\ InitControls

Next == NextAccel \/ NextStream \/ NextCounter \/ NextScene \/ NextOutputs
           \/ NextTasks \/ NextBoth \/ NextOverlay \/ NextRecorder
           \/ NextControls

Spec == Init /\ [][Next]_vars

SpecAccel == Init /\ [][NextAccel]_vars

SpecStream == Init /\ [][NextStream]_vars

SpecCounter == Init /\ [][NextCounter]_vars

SpecScene == Init /\ [][NextScene]_vars

SpecOutputs == Init /\ [][NextOutputs]_vars

\* The scene switcher with the main loop running its fade tasks.
SpecSceneFair == SpecScene /\ FairFades

\* Fade tasks and the bitrate loop together, with the compositor and the
\* encoder torn down at any moment.
SpecTasks == InitTasks /\ [][NextTasks]_vars

\* The overlay manager with its rotation tasks.
SpecOverlay == Init /\ [][NextOverlay]_vars

\* The scene switcher and the bitrate loop on the one main loop.
SpecBoth == Init /\ [][NextBoth]_vars

\* The recorder thread with the holder of the Sender as its environment.
SpecRecorder == Init /\ [][NextRecorder]_vars /\ FairRecorder

\* The recording controls under any sequence of clicks.
SpecControls == Init /\ [][NextControls]_vars

=============================================================================
